---- MODULE Spec2Model ----
(***************************************************************************)
(* A model of the jemmy accessor macros for struct fields.                 *)
(*                                                                         *)
(* Part 1 is macro expansion: an invocation is a token sequence, each      *)
(* macro is an ordered list of rules (matcher + transcriber), the first    *)
(* rule whose matcher accepts the whole input is transcribed, and a        *)
(* transcriber either emits a method or re-invokes a macro.                *)
(*                                                                         *)
(* Part 2 is the behaviour of the emitted methods: an `impl` block of      *)
(* invocations is expanded for the example struct `Address`, and the       *)
(* actions call the generated methods on a value of that struct.           *)
(***************************************************************************)
EXTENDS Integers, Sequences, FiniteSets, TLC

\* Largest payload of a modelled value (values are numbered 0..MaxVal).
MaxVal == 1
\* Largest number of macro invocations in the modelled impl block.
MaxInvocations == 2

(***************************************************************************)
(* Tokens and macro_rules matching                                         *)
(***************************************************************************)

\* Punctuation and the unit group `()`; "ty()" is a unit type that an
\* earlier rule matched as `$x:ty` and forwarded: an opaque fragment, which
\* a literal `()` of a matcher does not match.
Punct == {"=>", ",", "()", "::", "ty()", "[", "]", "(", ")", ":", "->"}

\* Reserved words that occur in invocations; `true` is also a literal.
Reserved == {"pub", "const", "true"}

IsIdentTok(t) == t \notin Punct /\ t \notin Reserved

\* Number of tokens of the path `a::b::c` that starts at toks[j].
RECURSIVE PathLen(_, _)
PathLen(toks, j) ==
    IF j + 2 <= Len(toks) /\ toks[j + 1] = "::" /\ IsIdentTok(toks[j + 2])
    THEN 2 + PathLen(toks, j + 2)
    ELSE 1

\* Number of tokens the fragment `frag` takes from toks at position j,
\* or -1 when the fragment cannot start there.
\*   vis   : `pub` or nothing
\*   ident : one identifier (the keywords copy/into/optional are plain
\*           identifiers to the matcher)
\*   ty    : a path type, or the unit type `()`; a reserved word cannot
\*           begin a type
\*   expr  : a path, `()` or the literal `true`; `const` cannot begin an
\*           expression fragment
FragLen(frag, toks, j) ==
    CASE frag = "vis"   -> IF j <= Len(toks) /\ toks[j] = "pub" THEN 1 ELSE 0
      [] frag = "ident" -> IF j <= Len(toks) /\ IsIdentTok(toks[j]) THEN 1 ELSE -1
      [] frag = "ty"    -> IF j > Len(toks) THEN -1
                           ELSE IF toks[j] \in {"()", "ty()"} THEN 1
                           ELSE IF IsIdentTok(toks[j]) THEN PathLen(toks, j)
                           ELSE -1
      [] frag = "expr"  -> IF j > Len(toks) THEN -1
                           ELSE IF toks[j] \in {"()", "true"} THEN 1
                           ELSE IF IsIdentTok(toks[j]) THEN PathLen(toks, j)
                           ELSE -1
      [] OTHER          -> -1

\* What a fragment binds: the tokens it took; a type is bound as one opaque
\* fragment.
Bound(frag, toks) == IF frag = "ty" /\ toks = <<"()">> THEN <<"ty()">> ELSE toks

\* A matcher element is <<var, frag>> for `$var:frag` and <<tok>> for a
\* literal token.  MatchFrom gives [ok, b]: whether pat[i..] accepts exactly
\* toks[j..], and the bindings var -> token sequence.
RECURSIVE MatchFrom(_, _, _, _, _)
MatchFrom(pat, toks, i, j, b) ==
    IF i > Len(pat)
    THEN [ok |-> j = Len(toks) + 1, b |-> b]
    ELSE IF Len(pat[i]) = 1
         THEN IF j <= Len(toks) /\ toks[j] = pat[i][1]
              THEN MatchFrom(pat, toks, i + 1, j + 1, b)
              ELSE [ok |-> FALSE, b |-> b]
         ELSE LET n == FragLen(pat[i][2], toks, j)
              IN  IF n < 0
                  THEN [ok |-> FALSE, b |-> b]
                  ELSE MatchFrom(pat, toks, i + 1, j + n,
                                 (pat[i][1] :> Bound(pat[i][2], SubSeq(toks, j, j + n - 1)))
                                    @@ b)

Match(pat, toks) == MatchFrom(pat, toks, 1, 1, << >>)

(***************************************************************************)
(* Notation for rules                                                      *)
(***************************************************************************)

\* `$var:frag` and a literal token of a matcher.
V(var, frag) == <<var, frag>>
L(tok) == <<tok>>
\* `$var` in a transcriber.
X(var) == <<"$", var>>

Lits(toks) == [k \in 1..Len(toks) |-> L(toks[k])]

\* The two matcher shapes of the field macros:
\*   ($fn_vis:vis $fn_name:ident => $field_name:ident, <kws> $value_type:ty)
\*   ($fn_vis:vis $name:ident => <kws> $value_type:ty)
LongForm(kws) ==
    <<V("fn_vis", "vis"), V("fn_name", "ident"), L("=>"),
      V("field_name", "ident"), L(",")>> \o Lits(kws) \o <<V("value_type", "ty")>>

ShortForm(kws) ==
    <<V("fn_vis", "vis"), V("name", "ident"), L("=>")>>
        \o Lits(kws) \o <<V("value_type", "ty")>>

\* The transcriber `$crate::macro!($fn_vis $name => $name, <kws> $value_type);`
\* of a short form, and `$crate::macro!($fn_vis $fn_name => $field_name, <kws>
\* $value_type);` of a combinator.
CallLongFromShort(macro, kws) ==
    [op |-> "call", macro |-> macro,
     args |-> <<X("fn_vis"), X("name"), L("=>"), X("name"), L(",")>>
                  \o Lits(kws) \o <<X("value_type")>>]

CallLong(macro, kws) ==
    [op |-> "call", macro |-> macro,
     args |-> <<X("fn_vis"), X("fn_name"), L("=>"), X("field_name"), L(",")>>
                  \o Lits(kws) \o <<X("value_type")>>]

\* An emitted method `$fn_vis [const] fn [<pre $fn_name post>](recv, ...) -> ret
\* { body }` on the field `self.$field_name`; param is "" (none), "T" for
\* `value: $value_type` or "Into<T>" for `<T: Into<$value_type>>(.., value: T)`;
\* body is the sequence of its statements, with `f` for `$field_name`.
Fn(pre, post, recv, param, ret, body) ==
    [op |-> "fn", vis |-> "fn_vis", pre |-> pre, id |-> "fn_name", post |-> post,
     recv |-> recv, param |-> param, ret |-> ret, body |-> body,
     field |-> "field_name", ty |-> "value_type"]

Rule(pat, out) == [pat |-> pat, out |-> out]

(***************************************************************************)
(* field/core.rs: get!, get_mut!, set!, unset!, with!                      *)
(*                                                                         *)
(* For each macro: the transcriber of every rule that emits a method, then *)
(* the rules in source order.  The rule after each emitting rule is its    *)
(* form without field name, which re-invokes the macro with                *)
(* `$name => $name`.                                                       *)
(***************************************************************************)

ShortCall(macro, kws) == Rule(ShortForm(kws), <<CallLongFromShort(macro, kws)>>)

\* get_base reading `&self.$fn_name`.
get_base_FnNameField ==
    <<[Fn("", "", "&self", "", "&T", <<"&self.f">>) EXCEPT !.field = "fn_name"]>>

get_base ==
    <<Fn("", "", "&self", "", "&T", <<"&self.f">>)>>

get_copy ==
    <<Fn("", "", "&self", "", "T", <<"self.f">>)>>

get_optional ==
    <<Fn("", "", "&self", "", "Option<&T>", <<"self.f.as_ref()">>)>>

get_optional_copy ==
    <<Fn("", "", "&self", "", "Option<T>", <<"self.f">>)>>

\* macro_rules! get
get ==
    << Rule(LongForm(<<>>), get_base),
       ShortCall("get", <<>>),
       Rule(LongForm(<<"copy">>), get_copy),
       ShortCall("get", <<"copy">>),
       Rule(LongForm(<<"optional">>), get_optional),
       ShortCall("get", <<"optional">>),
       Rule(LongForm(<<"optional", "copy">>), get_optional_copy),
       ShortCall("get", <<"optional", "copy">>) >>

\* get_mut_base returning `&mut self.$fn_name`.
get_mut_base_FnNameField ==
    <<[Fn("", "_mut", "&mut self", "", "&mut T", <<"&mut self.f">>)
          EXCEPT !.field = "fn_name"]>>

get_mut_base ==
    <<Fn("", "_mut", "&mut self", "", "&mut T", <<"&mut self.f">>)>>

\* macro_rules! get_mut
get_mut ==
    << Rule(LongForm(<<>>), get_mut_base),
       ShortCall("get_mut", <<>>) >>

\* set_base pasting `[<set $fn_name>]`.
set_base_NoUnderscore ==
    <<Fn("set", "", "&mut self", "T", "()", <<"self.f = value">>)>>

set_base ==
    <<Fn("set_", "", "&mut self", "T", "()", <<"self.f = value">>)>>

\* set_into without the type parameter: `value: $value_type`.
set_into_NotGeneric ==
    <<Fn("set_", "", "&mut self", "T", "()", <<"self.f = value.into()">>)>>

set_into ==
    <<Fn("set_", "", "&mut self", "Into<T>", "()", <<"self.f = value.into()">>)>>

\* set_optional with the body of unset!.
set_optional_StoresNone ==
    <<Fn("set_", "", "&mut self", "T", "()", <<"self.f = None">>)>>

set_optional ==
    <<Fn("set_", "", "&mut self", "T", "()", <<"self.f = Some(value)">>)>>

set_optional_into ==
    <<Fn("set_", "", "&mut self", "Into<T>", "()", <<"self.f = Some(value.into())">>)>>

\* macro_rules! set
set ==
    << Rule(LongForm(<<>>), set_base),
       ShortCall("set", <<>>),
       Rule(LongForm(<<"into">>), set_into),
       ShortCall("set", <<"into">>),
       Rule(LongForm(<<"optional">>), set_optional),
       ShortCall("set", <<"optional">>),
       Rule(LongForm(<<"optional", "into">>), set_optional_into),
       ShortCall("set", <<"optional", "into">>) >>

\* unset_base assigning `self.$fn_name`.
unset_base_FnNameField ==
    <<[Fn("unset_", "", "&mut self", "", "()", <<"self.f = None">>)
          EXCEPT !.ty = "", !.field = "fn_name"]>>

\* unset! takes no type: `viz name => field_name` and `viz name`.
unset_base ==
    <<[Fn("unset_", "", "&mut self", "", "()", <<"self.f = None">>) EXCEPT !.ty = ""]>>

\* macro_rules! unset
unset ==
    << Rule(<<V("fn_vis", "vis"), V("fn_name", "ident"), L("=>"),
              V("field_name", "ident")>>,
            unset_base),
       Rule(<<V("fn_vis", "vis"), V("name", "ident")>>,
            <<[op |-> "call", macro |-> "unset",
               args |-> <<X("fn_vis"), X("name"), L("=>"), X("name")>>]>>) >>

\* with_base returning self without the assignment.
with_base_NoAssignment ==
    <<Fn("with_", "", "mut self", "T", "Self", <<"self">>)>>

\* with_base assigning `self.$fn_name`.
with_base_FnNameField ==
    <<[Fn("with_", "", "mut self", "T", "Self", <<"self.f = value", "self">>)
          EXCEPT !.field = "fn_name"]>>

with_base ==
    <<Fn("with_", "", "mut self", "T", "Self",
          <<"self.f = value", "self">>)>>

with_into ==
    <<Fn("with_", "", "mut self", "Into<T>", "Self",
          <<"self.f = value.into()", "self">>)>>

with_optional ==
    <<Fn("with_", "", "mut self", "T", "Self",
          <<"self.f = Some(value)", "self">>)>>

with_optional_into ==
    <<Fn("with_", "", "mut self", "Into<T>", "Self",
          <<"self.f = Some(value.into())", "self">>)>>

\* macro_rules! with
with ==
    << Rule(LongForm(<<>>), with_base),
       ShortCall("with", <<>>),
       Rule(LongForm(<<"into">>), with_into),
       ShortCall("with", <<"into">>),
       Rule(LongForm(<<"optional">>), with_optional),
       ShortCall("with", <<"optional">>),
       Rule(LongForm(<<"optional", "into">>), with_optional_into),
       ShortCall("with", <<"optional", "into">>) >>

(***************************************************************************)
(* field/combination.rs: the transcriber of every rule with field name,    *)
(* then the rules in source order.                                         *)
(***************************************************************************)

get_and_set_base ==
    <<CallLong("get", <<>>),
      CallLong("set", <<>>)>>

get_and_set_copy ==
    <<CallLong("get", <<"copy">>),
      CallLong("set", <<>>)>>

get_and_set_into ==
    <<CallLong("get", <<>>),
      CallLong("set", <<"into">>)>>

get_and_set_optional ==
    <<CallLong("get", <<"optional">>),
      CallLong("set", <<"optional">>)>>

get_and_set_optional_copy ==
    <<CallLong("get", <<"optional", "copy">>),
      CallLong("set", <<"optional">>)>>

get_and_set_optional_into ==
    <<CallLong("get", <<"optional">>),
      CallLong("set", <<"optional", "into">>)>>

\* macro_rules! get_and_set
get_and_set ==
    << Rule(LongForm(<<>>), get_and_set_base),
       ShortCall("get_and_set", <<>>),
       Rule(LongForm(<<"copy">>), get_and_set_copy),
       ShortCall("get_and_set", <<"copy">>),
       Rule(LongForm(<<"into">>), get_and_set_into),
       ShortCall("get_and_set", <<"into">>),
       Rule(LongForm(<<"optional">>), get_and_set_optional),
       ShortCall("get_and_set", <<"optional">>),
       Rule(LongForm(<<"optional", "copy">>), get_and_set_optional_copy),
       ShortCall("get_and_set", <<"optional", "copy">>),
       Rule(LongForm(<<"optional", "into">>), get_and_set_optional_into),
       ShortCall("get_and_set", <<"optional", "into">>) >>

with_get_and_set_base ==
    <<CallLong("with", <<>>),
      CallLong("get_and_set", <<>>)>>

with_get_and_set_copy ==
    <<CallLong("with", <<>>),
      CallLong("get_and_set", <<"copy">>)>>

with_get_and_set_into ==
    <<CallLong("with", <<"into">>),
      CallLong("get_and_set", <<"into">>)>>

with_get_and_set_optional ==
    <<CallLong("with", <<"optional">>),
      CallLong("get_and_set", <<"optional">>)>>

\* with_get_and_set_optional_copy passing `optional` to get_and_set!.
with_get_and_set_optional_copy_CopyDropped ==
    <<CallLong("with", <<"optional">>),
      CallLong("get_and_set", <<"optional">>)>>

with_get_and_set_optional_copy ==
    <<CallLong("with", <<"optional">>),
      CallLong("get_and_set", <<"optional", "copy">>)>>

with_get_and_set_optional_into ==
    <<CallLong("with", <<"optional", "into">>),
      CallLong("get_and_set", <<"optional", "into">>)>>

\* macro_rules! with_get_and_set
with_get_and_set ==
    << Rule(LongForm(<<>>), with_get_and_set_base),
       ShortCall("with_get_and_set", <<>>),
       Rule(LongForm(<<"copy">>), with_get_and_set_copy),
       ShortCall("with_get_and_set", <<"copy">>),
       Rule(LongForm(<<"into">>), with_get_and_set_into),
       ShortCall("with_get_and_set", <<"into">>),
       Rule(LongForm(<<"optional">>), with_get_and_set_optional),
       ShortCall("with_get_and_set", <<"optional">>),
       Rule(LongForm(<<"optional", "copy">>), with_get_and_set_optional_copy),
       ShortCall("with_get_and_set", <<"optional", "copy">>),
       Rule(LongForm(<<"optional", "into">>), with_get_and_set_optional_into),
       ShortCall("with_get_and_set", <<"optional", "into">>) >>

\* `$crate::unset!($fn_vis $fn_name => $field_name);`
UnsetItem ==
    [op |-> "call", macro |-> "unset",
     args |-> <<X("fn_vis"), X("fn_name"), L("=>"), X("field_name")>>]

\* get_set_and_unset_base invoking `unset!($fn_vis $fn_name)`.
get_set_and_unset_base_UnsetShort ==
    <<CallLong("get_and_set", <<"optional">>),
      [op |-> "call", macro |-> "unset", args |-> <<X("fn_vis"), X("fn_name")>>]>>

get_set_and_unset_base ==
    <<CallLong("get_and_set", <<"optional">>),
      UnsetItem>>

\* macro_rules! get_set_and_unset
get_set_and_unset ==
    << Rule(LongForm(<<>>), get_set_and_unset_base),
       ShortCall("get_set_and_unset", <<>>) >>

\* with_get_set_and_unset_base without the `unset!` line.
with_get_set_and_unset_base_NoUnset ==
    <<CallLong("with_get_and_set", <<"optional">>)>>

with_get_set_and_unset_base ==
    <<CallLong("with_get_and_set", <<"optional">>),
      UnsetItem>>

\* macro_rules! with_get_set_and_unset
with_get_set_and_unset ==
    << Rule(LongForm(<<>>), with_get_set_and_unset_base),
       ShortCall("with_get_set_and_unset", <<>>) >>

(***************************************************************************)
(* variant/core.rs, variant/combination.rs: is_variant!, as_variant!,      *)
(* as_variant_mut!, is_as_variant!                                         *)
(***************************************************************************)

\* The two-name matcher with the names in the other order.
VariantLong_NameFirst(rest) ==
    <<V("fn_vis", "vis"), V("function_name", "ident"), L(","),
      V("variant_name", "ident")>> \o rest

\* The matcher shapes of the variant macros:
\*   ($fn_vis:vis $variant_name:ident, $function_name:ident <rest>)
\*   ($fn_vis:vis $variant_name:ident <rest>)
VariantLong(rest) ==
    <<V("fn_vis", "vis"), V("variant_name", "ident"), L(","),
      V("function_name", "ident")>> \o rest

VariantShort(rest) == <<V("fn_vis", "vis"), V("variant_name", "ident")>> \o rest

\* What follows the names in a matcher: nothing, `=> ()`, `=> [copy] $variant_type:ty`,
\* `=> [const] $value:expr, $value_type:ty`.
Bare == <<>>
UnitForm == <<L("=>"), L("()")>>
DataForm(kws) == <<L("=>")>> \o Lits(kws) \o <<V("variant_type", "ty")>>
ValueForm(kws) ==
    <<L("=>")>> \o Lits(kws) \o <<V("value", "expr"), L(","), V("value_type", "ty")>>

\* The same in a transcriber: every `$var:frag` becomes `$var`.
Transcribed(rest) ==
    [k \in 1..Len(rest) |-> IF Len(rest[k]) = 2 THEN X(rest[k][1]) ELSE rest[k]]

\* `$crate::macro!($fn_vis $variant_name, $<named> <rest>);`
CallNamed(macro, named, rest) ==
    [op |-> "call", macro |-> macro,
     args |-> <<X("fn_vis"), X("variant_name"), L(","), X(named)>> \o Transcribed(rest)]

\* `$crate::macro!($fn_vis $variant_name <rest>);`
CallUnnamed(macro, rest) ==
    [op |-> "call", macro |-> macro,
     args |-> <<X("fn_vis"), X("variant_name")>> \o Transcribed(rest)]

\* An emitted method `$fn_vis const fn [< pre $function_name:snake post >](recv)
\* -> ret { match self { Self::$variant_name<pat> => arm, _ => <no> } }`;
\* pat is "" for `Self::V`, "(_)", "(value)" or "(ref mut value)"; ty names
\* the metavariable transcribed for T in ret ("" if there is none).  The arm
\* `Some($value)` transcribes $value, and `CONST_VALUE` stands for the
\* constant `const CONST_VALUE: Option<$value_type> = Some($value);`.
VariantFn(pre, post, recv, ret, pat, arm, ty) ==
    [op |-> "vfn", vis |-> "fn_vis", pre |-> pre, id |-> "function_name",
     post |-> post, recv |-> recv, ret |-> ret, pat |-> pat, arm |-> arm,
     variant |-> "variant_name", ty |-> ty]

is_variant_unit ==
    <<VariantFn("is_", "", "&self", "bool", "", "true", "")>>

is_variant_data ==
    <<VariantFn("is_", "", "&self", "bool", "(_)", "true", "")>>

\* macro_rules! is_variant
is_variant ==
    << Rule(VariantLong(Bare), <<CallNamed("is_variant", "function_name", UnitForm)>>),
       Rule(VariantShort(Bare), <<CallUnnamed("is_variant", UnitForm)>>),
       Rule(VariantLong(UnitForm), is_variant_unit),
       Rule(VariantShort(UnitForm),
            <<CallNamed("is_variant", "variant_name", UnitForm)>>),
       Rule(VariantLong(DataForm(<<>>)), is_variant_data),
       Rule(VariantShort(DataForm(<<>>)),
            <<CallNamed("is_variant", "variant_name", DataForm(<<>>))>>) >>

as_variant_unit ==
    <<VariantFn("as_", "", "&self", "Option<()>", "", "Some(())", "")>>

as_variant_data ==
    <<VariantFn("as_", "", "&self", "Option<&T>", "(value)", "Some(value)",
                "variant_type")>>

\* The copy rule without the dereference: `Option<&T>`, `Some(value)`.
as_variant_copy_NoDeref ==
    <<VariantFn("as_", "", "&self", "Option<&T>", "(value)", "Some(value)",
                "variant_type")>>

as_variant_copy ==
    <<VariantFn("as_", "", "&self", "Option<T>", "(value)", "Some(*value)",
                "variant_type")>>

\* The value rule emitting the method of the no-data rule.
as_variant_value_IgnoresValue ==
    <<VariantFn("as_", "", "&self", "Option<()>", "", "Some(())", "")>>

as_variant_value ==
    <<VariantFn("as_", "", "&self", "Option<T>", "", "Some($value)",
                "value_type")>>

\* The return type is written `Option<$variant_type>`, the constant
\* `Option<$value_type>`.
as_variant_const_value ==
    <<VariantFn("as_", "", "&self", "Option<T>", "", "CONST_VALUE",
                "variant_type")>>

\* Rule (1b) re-invoking under the variant's name.
as_variant_bare_DropsName == <<CallNamed("as_variant", "variant_name", UnitForm)>>

\* (1b) `viz Variant, function_name`
as_variant_bare == <<CallNamed("as_variant", "function_name", UnitForm)>>

\* macro_rules! as_variant
as_variant ==
    << Rule(VariantLong(UnitForm), as_variant_unit),
       Rule(VariantShort(UnitForm),
            <<CallNamed("as_variant", "variant_name", UnitForm)>>),
       Rule(VariantLong(Bare), as_variant_bare),
       Rule(VariantShort(Bare), <<CallNamed("as_variant", "variant_name", UnitForm)>>),
       Rule(VariantLong(DataForm(<<>>)), as_variant_data),
       Rule(VariantShort(DataForm(<<>>)),
            <<CallNamed("as_variant", "variant_name", DataForm(<<>>))>>),
       Rule(VariantLong(DataForm(<<"copy">>)), as_variant_copy),
       Rule(VariantShort(DataForm(<<"copy">>)),
            <<CallNamed("as_variant", "variant_name", DataForm(<<"copy">>))>>),
       Rule(VariantLong(ValueForm(<<>>)), as_variant_value),
       Rule(VariantShort(ValueForm(<<>>)),
            <<CallNamed("as_variant", "variant_name", ValueForm(<<>>))>>),
       Rule(VariantLong(ValueForm(<<"const">>)), as_variant_const_value),
       Rule(VariantShort(ValueForm(<<"const">>)),
            <<CallNamed("as_variant", "variant_name", ValueForm(<<"const">>))>>) >>

\* The as_variant_mut! rule binding `value` by shared reference: `Option<&T>`.
as_variant_mut_data_SharedRef ==
    <<VariantFn("as_", "_mut", "&mut self", "Option<&T>", "(value)",
                "Some(value)", "variant_type")>>

as_variant_mut_data ==
    <<VariantFn("as_", "_mut", "&mut self", "Option<&mut T>", "(ref mut value)",
                "Some(value)", "variant_type")>>

\* macro_rules! as_variant_mut
as_variant_mut ==
    << Rule(VariantLong(DataForm(<<>>)), as_variant_mut_data),
       Rule(VariantShort(DataForm(<<>>)),
            <<CallNamed("as_variant_mut", "variant_name", DataForm(<<>>))>>) >>

is_as_variant_base ==
    <<CallNamed("is_variant", "function_name", DataForm(<<>>)),
      CallNamed("as_variant", "function_name", DataForm(<<>>))>>

\* The copy rule passing `=> $variant_type` to as_variant! as well.
is_as_variant_copy_CopyDropped ==
    <<CallNamed("is_variant", "function_name", DataForm(<<>>)),
      CallNamed("as_variant", "function_name", DataForm(<<>>))>>

is_as_variant_copy ==
    <<CallNamed("is_variant", "function_name", DataForm(<<>>)),
      CallNamed("as_variant", "function_name", DataForm(<<"copy">>))>>

\* macro_rules! is_as_variant
is_as_variant ==
    << Rule(VariantLong(DataForm(<<>>)), is_as_variant_base),
       Rule(VariantShort(DataForm(<<>>)),
            <<CallNamed("is_as_variant", "variant_name", DataForm(<<>>))>>),
       Rule(VariantLong(DataForm(<<"copy">>)), is_as_variant_copy),
       Rule(VariantShort(DataForm(<<"copy">>)),
            <<CallNamed("is_as_variant", "variant_name", DataForm(<<"copy">>))>>) >>

(***************************************************************************)
(* variant/impls.rs: impl_from_for_variant!                                *)
(***************************************************************************)

\* ([into] $value_type:ty => $enum_type:ty, $variant_name:ident)
FromForm(kws) ==
    Lits(kws) \o <<V("value_type", "ty"), L("=>"), V("enum_type", "ty"), L(","),
                   V("variant_name", "ident")>>

\* `impl<..> From<..> for $enum_type { fn from(value: ..) -> Self { body } }`;
\* generic: the parameter is `T: Into<$value_type>` instead of `$value_type`.
FromFn(generic, body) ==
    [op |-> "from", generic |-> generic, body |-> body, ty |-> "value_type",
     enum |-> "enum_type", variant |-> "variant_name"]

\* The base rule with the parameter and body of the `into` rule.
impl_from_for_variant_base_Generic == <<FromFn(TRUE, "Self::V(value.into())")>>

impl_from_for_variant_base == <<FromFn(FALSE, "Self::V(value)")>>

impl_from_for_variant_into == <<FromFn(TRUE, "Self::V(value.into())")>>

\* macro_rules! impl_from_for_variant
impl_from_for_variant ==
    << Rule(FromForm(<<>>), impl_from_for_variant_base),
       Rule(FromForm(<<"into">>), impl_from_for_variant_into) >>

VariantMacros == {"is_variant", "as_variant", "as_variant_mut", "is_as_variant"}

FieldMacros ==
    {"get", "get_mut", "set", "unset", "with", "get_and_set", "with_get_and_set",
     "get_set_and_unset", "with_get_set_and_unset"}

\* The rules of macro `m`, in source order.
Rules(m) ==
    CASE m = "get" -> get
      [] m = "get_mut" -> get_mut
      [] m = "set" -> set
      [] m = "unset" -> unset
      [] m = "with" -> with
      [] m = "get_and_set" -> get_and_set
      [] m = "with_get_and_set" -> with_get_and_set
      [] m = "get_set_and_unset" -> get_set_and_unset
      [] m = "with_get_set_and_unset" -> with_get_set_and_unset
      [] m = "is_variant" -> is_variant
      [] m = "as_variant" -> as_variant
      [] m = "as_variant_mut" -> as_variant_mut
      [] m = "is_as_variant" -> is_as_variant
      [] m = "impl_from_for_variant" -> impl_from_for_variant

(***************************************************************************)
(* Expansion                                                               *)
(***************************************************************************)

\* FirstMatchFrom with the last rule that matches.
RECURSIVE FirstMatchFrom_Last(_, _, _)
FirstMatchFrom_Last(rules, toks, k) ==
    IF k > Len(rules) THEN 0
    ELSE LET later == FirstMatchFrom_Last(rules, toks, k + 1)
         IN  IF later # 0 THEN later
             ELSE IF Match(rules[k].pat, toks).ok THEN k ELSE 0

\* Rules are tried in order; the first whose matcher accepts the input is
\* used (0: no rule matches, a compile error).
RECURSIVE FirstMatchFrom(_, _, _)
FirstMatchFrom(rules, toks, k) ==
    IF k > Len(rules) THEN 0
    ELSE IF Match(rules[k].pat, toks).ok THEN k
    ELSE FirstMatchFrom(rules, toks, k + 1)

FirstMatch(rules, toks) == FirstMatchFrom(rules, toks, 1)

\* Substitute the bindings into a transcriber's token template.
RECURSIVE Instantiate(_, _)
Instantiate(tpl, b) ==
    IF tpl = <<>> THEN <<>>
    ELSE (IF Len(Head(tpl)) = 1 THEN Head(tpl) ELSE b[Head(tpl)[2]])
            \o Instantiate(Tail(tpl), b)

\* paste's `[< pre $fn_name post >]`: the identifiers are concatenated.
Paste(pre, id, post) == pre \o id \o post

\* Method with `self.$fn_name` in every body.
Method_FnNameField(it, b) ==
    [vis |-> b[it.vis], name |-> Paste(it.pre, b[it.id][1], it.post),
     recv |-> it.recv, param |-> it.param, ret |-> it.ret, body |-> it.body,
     field |-> b[it.id][1],
     ty |-> IF it.ty = "" THEN <<>> ELSE b[it.ty]]

\* The method an `fn` item of a transcriber emits under bindings b.
Method(it, b) ==
    [vis |-> b[it.vis], name |-> Paste(it.pre, b[it.id][1], it.post),
     recv |-> it.recv, param |-> it.param, ret |-> it.ret, body |-> it.body,
     field |-> b[it.field][1],
     ty |-> IF it.ty = "" THEN <<>> ELSE b[it.ty]]

\* The letters of the identifiers that occur in invocations.
Chars(id) ==
    CASE id = "Home" -> <<"H", "o", "m", "e">>
      [] id = "Work" -> <<"W", "o", "r", "k">>
      [] id = "XRef" -> <<"X", "R", "e", "f">>
      [] id = "Unknown" -> <<"U", "n", "k", "n", "o", "w", "n">>
      [] id = "BadlyFormed" -> <<"B", "a", "d", "l", "y", "F", "o", "r", "m", "e", "d">>
      [] id = "address" -> <<"a", "d", "d", "r", "e", "s", "s">>
      [] id = "external_id" -> <<"e", "x", "t", "e", "r", "n", "a", "l", "_", "i", "d">>
      [] id = "X_Ref" -> <<"X", "_", "R", "e", "f">>

UpperCase == <<"B", "F", "H", "R", "U", "W", "X">>
LowerCase == <<"b", "f", "h", "r", "u", "w", "x">>

IsUpper(ch) == \E k \in 1..Len(UpperCase) : UpperCase[k] = ch

ToLower(ch) ==
    IF IsUpper(ch)
    THEN LowerCase[CHOOSE k \in 1..Len(UpperCase) : UpperCase[k] = ch]
    ELSE ch

\* paste's `:snake` modifier, letter by letter: an underscore goes before an
\* upper-case letter unless the previous character is an underscore (the
\* start of the name counts as one), then everything is lower-cased.
RECURSIVE SnakeFrom(_, _, _)
SnakeFrom(chars, k, prev) ==
    IF k > Len(chars) THEN ""
    ELSE (IF IsUpper(chars[k]) /\ prev # "_" THEN "_" ELSE "")
            \o ToLower(chars[k]) \o SnakeFrom(chars, k + 1, chars[k])

Snake(id) == SnakeFrom(Chars(id), 1, "_")

\* Variant method named after `$variant_name`.
VariantMethod_VariantNamed(it, b) ==
    LET bound(var) == IF var \in DOMAIN b THEN b[var] ELSE <<"$", var>>
    IN  [vis |-> b[it.vis],
         name |-> Paste(it.pre, Snake(b[it.variant][1]), it.post),
         recv |-> it.recv, ret |-> it.ret, pat |-> it.pat, arm |-> it.arm,
         variant |-> b[it.variant][1],
         ty |-> IF it.ty = "" THEN <<>> ELSE bound(it.ty),
         value |-> IF it.arm \in {"Some($value)", "CONST_VALUE"}
                   THEN bound("value") ELSE <<>>,
         constTy |-> IF it.arm = "CONST_VALUE" THEN bound("value_type") ELSE <<>>]

\* Variant method that matches on `Self::$function_name`.
VariantMethod_FnNameVariant(it, b) ==
    LET bound(var) == IF var \in DOMAIN b THEN b[var] ELSE <<"$", var>>
    IN  [vis |-> b[it.vis], name |-> Paste(it.pre, Snake(b[it.id][1]), it.post),
         recv |-> it.recv, ret |-> it.ret, pat |-> it.pat, arm |-> it.arm,
         variant |-> b[it.id][1],
         ty |-> IF it.ty = "" THEN <<>> ELSE bound(it.ty),
         value |-> IF it.arm \in {"Some($value)", "CONST_VALUE"}
                   THEN bound("value") ELSE <<>>,
         constTy |-> IF it.arm = "CONST_VALUE" THEN bound("value_type") ELSE <<>>]

\* The method a variant `fn` item of a transcriber emits under bindings b;
\* a metavariable the matcher did not bind is transcribed as it is written.
VariantMethod(it, b) ==
    LET bound(var) == IF var \in DOMAIN b THEN b[var] ELSE <<"$", var>>
    IN  [vis |-> b[it.vis], name |-> Paste(it.pre, Snake(b[it.id][1]), it.post),
         recv |-> it.recv, ret |-> it.ret, pat |-> it.pat, arm |-> it.arm,
         variant |-> b[it.variant][1],
         ty |-> IF it.ty = "" THEN <<>> ELSE bound(it.ty),
         value |-> IF it.arm \in {"Some($value)", "CONST_VALUE"}
                   THEN bound("value") ELSE <<>>,
         constTy |-> IF it.arm = "CONST_VALUE" THEN bound("value_type") ELSE <<>>]

\* The `from` function a From item of a transcriber emits under bindings b.
FromImpl(it, b) ==
    [vis |-> <<>>, name |-> "from", recv |-> "value", ret |-> "Self",
     generic |-> it.generic, pat |-> "(value)", arm |-> it.body,
     variant |-> b[it.variant][1], ty |-> b[it.ty], enum |-> b[it.enum]]

NoRuleMatches ==
    [vis |-> <<>>, name |-> "", recv |-> "", param |-> "", ret |-> "",
     body |-> <<"compile_error">>, field |-> "", ty |-> <<>>]

\* The methods (in order of emission) that `macro!(toks)` expands to.
RECURSIVE Expand(_, _)
RECURSIVE ExpandItems(_, _, _)
ExpandItems(out, n, b) ==
    IF n > Len(out) THEN <<>>
    ELSE (IF out[n].op = "fn" THEN <<Method(out[n], b)>>
          ELSE IF out[n].op = "vfn" THEN <<VariantMethod(out[n], b)>>
          ELSE IF out[n].op = "from" THEN <<FromImpl(out[n], b)>>
          ELSE Expand(out[n].macro, Instantiate(out[n].args, b)))
            \o ExpandItems(out, n + 1, b)

Expand(macro, toks) ==
    LET rules == Rules(macro)
        k == FirstMatch(rules, toks)
    IN  IF k = 0 THEN <<NoRuleMatches>>
        ELSE ExpandItems(rules[k].out, 1, Match(rules[k].pat, toks).b)


(***************************************************************************)
(* The example struct and its values                                       *)
(***************************************************************************)

\* struct Address { number_on_street: u32, street_1: String, city: String,
\*                  street_2: Option<String>, unit: Option<u32> }
Fields == {"number_on_street", "street_1", "city", "street_2", "unit"}

FieldType(f) ==
    CASE f = "number_on_street" -> <<"u32">>
      [] f = "street_1" -> <<"String">>
      [] f = "city" -> <<"String">>
      [] f = "street_2" -> <<"Option", "String">>
      [] f = "unit" -> <<"Option", "u32">>

IsOptional(f) == FieldType(f)[1] = "Option"
\* The type T of a field declared T or Option<T>.
BaseType(f) == FieldType(f)[Len(FieldType(f))]

\* The types a `Type` argument is drawn from, and which of them are Copy.
TypeTokens == {"u32", "String"}
IsCopy(ty) == ty \in {<<"u32">>, <<"u64">>}

Val(ty, n) == [ty |-> ty, n |-> n]
None == [tag |-> "None"]
Some(x) == [tag |-> "Some", val |-> x]

ValuesOf(ty) == {Val(ty, n) : n \in 0..MaxVal}

FieldValues(f) ==
    IF IsOptional(f)
    THEN {None} \cup {Some(v) : v \in ValuesOf(BaseType(f))}
    ELSE ValuesOf(BaseType(f))

\* #[derive(Default)]: 0, the empty string, None.
Default == [f \in Fields |-> IF IsOptional(f) THEN None ELSE Val(BaseType(f), 0)]

\* The argument types with an Into<ty> implementation (ty itself, by the
\* reflexive impl, and one foreign type), and the conversion.
IntoSources(ty) ==
    CASE ty = "String" -> {"String", "&str"}
      [] ty = "u32" -> {"u32", "u8"}
      [] ty = "u64" -> {"u64", "u32"}
      [] OTHER -> {ty}

Into(v, ty) == Val(ty, v.n)

(***************************************************************************)
(* Type checking and execution of an emitted method                       *)
(***************************************************************************)

OptionOf(ty) == <<"Option">> \o ty

\* Whether statement st of method m type-checks against the field.
StmtCompiles(m, st) ==
    LET ft == FieldType(m.field)
    IN  CASE st = "&self.f" -> ft = m.ty
          [] st = "self.f" /\ m.ret = "T" -> ft = m.ty /\ IsCopy(m.ty)
          [] st = "self.f" /\ m.ret = "Option<T>" ->
                 ft = OptionOf(m.ty) /\ IsCopy(m.ty)
          [] st = "self.f.as_ref()" -> ft = OptionOf(m.ty)
          [] st = "&mut self.f" -> ft = m.ty
          [] st = "self.f = value" -> ft = m.ty
          [] st = "self.f = value.into()" -> ft = m.ty
          [] st = "self.f = Some(value)" -> ft = OptionOf(m.ty)
          [] st = "self.f = Some(value.into())" -> ft = OptionOf(m.ty)
          [] st = "self.f = None" -> ft[1] = "Option"
          [] st = "self" -> m.ret = "Self"
          [] OTHER -> FALSE

\* Whether the emitted method compiles inside `impl Address`.
Compiles(m) ==
    /\ m.field \in Fields
    /\ \A k \in 1..Len(m.body) : StmtCompiles(m, m.body[k])

\* The values a caller may pass as `value`.
Args(m) ==
    CASE m.param = "T" -> ValuesOf(m.ty[1])
      [] m.param = "Into<T>" -> UNION {ValuesOf(t) : t \in IntoSources(m.ty[1])}
      [] OTHER -> {}

\* A shared reference to a place, with the value read through it.
Ref(place, v) == [kind |-> "&", place |-> place, val |-> v]
RefMut(place, v) == [kind |-> "&mut", place |-> place, val |-> v]
Unit == [kind |-> "()"]

\* Step with `self.f.as_ref()` as `self.f.take()`: the value is moved out of
\* the field.
Step_TakeOnRead(m, s, value, st) ==
    LET f == m.field
    IN  CASE st = "&self.f" -> [self |-> s, ret |-> Ref(f, s[f])]
          [] st = "self.f" -> [self |-> s, ret |-> s[f]]
          [] st = "self.f.as_ref()" ->
                [self |-> [s EXCEPT ![f] = None],
                 ret |-> IF s[f] = None THEN None ELSE Some(Ref(f, s[f].val))]
          [] st = "&mut self.f" -> [self |-> s, ret |-> RefMut(f, s[f])]
          [] st = "self.f = value" ->
                [self |-> [s EXCEPT ![f] = value], ret |-> Unit]
          [] st = "self.f = value.into()" ->
                [self |-> [s EXCEPT ![f] = Into(value, m.ty[1])], ret |-> Unit]
          [] st = "self.f = Some(value)" ->
                [self |-> [s EXCEPT ![f] = Some(value)], ret |-> Unit]
          [] st = "self.f = Some(value.into())" ->
                [self |-> [s EXCEPT ![f] = Some(Into(value, m.ty[1]))], ret |-> Unit]
          [] st = "self.f = None" ->
                [self |-> [s EXCEPT ![f] = None], ret |-> Unit]
          [] st = "self" -> [self |-> s, ret |-> s]

\* Step with `self.f = value` as a set-once cell: the assignment is made only
\* while the field holds its default value.
Step_SetOnce(m, s, value, st) ==
    LET f == m.field
    IN  CASE st = "&self.f" -> [self |-> s, ret |-> Ref(f, s[f])]
          [] st = "self.f" -> [self |-> s, ret |-> s[f]]
          [] st = "self.f.as_ref()" ->
                [self |-> s,
                 ret |-> IF s[f] = None THEN None ELSE Some(Ref(f, s[f].val))]
          [] st = "&mut self.f" -> [self |-> s, ret |-> RefMut(f, s[f])]
          [] st = "self.f = value" ->
                [self |-> IF s[f] = Default[f] THEN [s EXCEPT ![f] = value] ELSE s,
                 ret |-> Unit]
          [] st = "self.f = value.into()" ->
                [self |-> [s EXCEPT ![f] = Into(value, m.ty[1])], ret |-> Unit]
          [] st = "self.f = Some(value)" ->
                [self |-> [s EXCEPT ![f] = Some(value)], ret |-> Unit]
          [] st = "self.f = Some(value.into())" ->
                [self |-> [s EXCEPT ![f] = Some(Into(value, m.ty[1]))], ret |-> Unit]
          [] st = "self.f = None" ->
                [self |-> [s EXCEPT ![f] = None], ret |-> Unit]
          [] st = "self" -> [self |-> s, ret |-> s]

\* Statement st of method m run on struct s with argument `value`: the struct
\* afterwards and the value of the statement.
Step(m, s, value, st) ==
    LET f == m.field
    IN  CASE st = "&self.f" -> [self |-> s, ret |-> Ref(f, s[f])]
          [] st = "self.f" -> [self |-> s, ret |-> s[f]]
          [] st = "self.f.as_ref()" ->
                [self |-> s,
                 ret |-> IF s[f] = None THEN None ELSE Some(Ref(f, s[f].val))]
          [] st = "&mut self.f" -> [self |-> s, ret |-> RefMut(f, s[f])]
          [] st = "self.f = value" ->
                [self |-> [s EXCEPT ![f] = value], ret |-> Unit]
          [] st = "self.f = value.into()" ->
                [self |-> [s EXCEPT ![f] = Into(value, m.ty[1])], ret |-> Unit]
          [] st = "self.f = Some(value)" ->
                [self |-> [s EXCEPT ![f] = Some(value)], ret |-> Unit]
          [] st = "self.f = Some(value.into())" ->
                [self |-> [s EXCEPT ![f] = Some(Into(value, m.ty[1]))], ret |-> Unit]
          [] st = "self.f = None" ->
                [self |-> [s EXCEPT ![f] = None], ret |-> Unit]
          [] st = "self" -> [self |-> s, ret |-> s]

\* The body of method m run on struct s with argument `value`, statement by
\* statement: the struct afterwards and the value of the last statement.
RECURSIVE ExecFrom(_, _, _, _)
ExecFrom(m, s, value, k) ==
    LET r == Step(m, s, value, m.body[k])
    IN  IF k = Len(m.body) THEN r ELSE ExecFrom(m, r.self, value, k + 1)

Exec(m, s, value) == ExecFrom(m, s, value, 1)

(***************************************************************************)
(* The example enum, its values, and the methods emitted for it            *)
(***************************************************************************)

\* enum TypedAddress { Home(Address), Work(Address), XRef(u64), Unknown,
\*                     BadlyFormed }
Variants == {"Home", "Work", "XRef", "Unknown", "BadlyFormed"}

\* The type of the value a variant holds (<<>>: a variant without data).
PayloadType(v) ==
    CASE v \in {"Home", "Work"} -> <<"Address">>
      [] v = "XRef" -> <<"u64">>
      [] OTHER -> <<>>

HasData(v) == PayloadType(v) # <<>>

Enum(v, payload) == [variant |-> v, payload |-> payload]

EnumValues ==
    UNION {IF HasData(v) THEN {Enum(v, p) : p \in ValuesOf(PayloadType(v)[1])}
           ELSE {Enum(v, Unit)} : v \in Variants}

\* The expressions written as `value` in the value forms, with their types.
ExprType(expr) ==
    CASE expr = <<"true">> -> <<"bool">>
      [] expr = <<"Error", "::", "InvalidAddressError">> -> <<"Error">>
      [] expr = <<"()">> -> <<"()">>
      [] OTHER -> <<>>

Eval(expr) == Val(ExprType(expr)[1], expr)

\* Whether an emitted variant method type-checks against the enum: the
\* pattern has the shape of the variant, a bound payload has the type named
\* in the return type, `*value` needs a Copy payload, a substituted value has
\* the declared type, the constant has the type that is returned, and a
\* From impl is for the enum and builds the variant from its payload type.
VariantCompiles(m) ==
    /\ "pat" \in DOMAIN m
    /\ m.variant \in Variants
    /\ (m.pat = "") = ~HasData(m.variant)
    /\ m.pat \in {"(value)", "(ref mut value)"} => m.ty = PayloadType(m.variant)
    /\ m.arm = "Some(*value)" => IsCopy(m.ty)
    /\ m.ret = "Self" => m.enum = <<"TypedAddress">>
    /\ m.arm = "Some($value)" => ExprType(m.value) # <<>> /\ ExprType(m.value) = m.ty
    /\ m.arm = "CONST_VALUE" =>
          /\ ExprType(m.value) # <<>> /\ ExprType(m.value) = m.constTy
          /\ m.ty = m.constTy

\* `match` selecting the arm by the type of the payload.
RunVariant_ByPayloadType(m, e) ==
    LET matched == PayloadType(e.variant) = PayloadType(m.variant)
    IN  IF m.ret = "bool" THEN matched
        ELSE IF ~matched THEN None
        ELSE CASE m.arm = "Some(())" -> Some(Unit)
               [] m.arm = "Some(value)" /\ m.pat = "(value)" ->
                    Some(Ref(m.variant, e.payload))
               [] m.arm = "Some(value)" /\ m.pat = "(ref mut value)" ->
                    Some(RefMut(m.variant, e.payload))
               [] m.arm = "Some(*value)" -> Some(e.payload)
               [] m.arm \in {"Some($value)", "CONST_VALUE"} -> Some(Eval(m.value))

\* The result of calling the emitted method m on the enum value e:
\* `match self { Self::V<pat> => arm, _ => None }`, and `matches!` for bool.
RunVariant(m, e) ==
    LET matched == e.variant = m.variant
    IN  IF m.ret = "bool" THEN matched
        ELSE IF ~matched THEN None
        ELSE CASE m.arm = "Some(())" -> Some(Unit)
               [] m.arm = "Some(value)" /\ m.pat = "(value)" ->
                    Some(Ref(m.variant, e.payload))
               [] m.arm = "Some(value)" /\ m.pat = "(ref mut value)" ->
                    Some(RefMut(m.variant, e.payload))
               [] m.arm = "Some(*value)" -> Some(e.payload)
               [] m.arm \in {"Some($value)", "CONST_VALUE"} -> Some(Eval(m.value))

\* The argument types `from` accepts, and the enum value it builds from v.
FromSources(m) == IF m.generic THEN IntoSources(m.ty[1]) ELSE {m.ty[1]}

RunFrom(m, v) ==
    Enum(m.variant, IF m.arm = "Self::V(value.into())" THEN Into(v, m.ty[1]) ELSE v)

(***************************************************************************)
(* variant/impls.rs: impl_delegate_for_all!                                *)
(***************************************************************************)

\* Largest number of variants listed in an invocation.
MaxListed == 2

\* The position of the first token `tok` of toks at or after j (Len + 1 if
\* there is none).
RECURSIVE Find(_, _, _)
Find(toks, tok, j) ==
    IF j > Len(toks) \/ toks[j] = tok THEN j ELSE Find(toks, tok, j + 1)

\* The matchers of the two rules:
\*   ($enum_type:ty [ $( $variant_name:ident ),* ]
\*       => $fn_vis:vis $fn_name:ident $( -> $fn_type:ty )? )
\*   ($enum_type:ty [ $( $variant_name:ident ),* ]
\*       => $fn_vis:vis $fn_name:ident ( $($param_name:ident : $param_type:ty),+ )
\*          $( -> $fn_type:ty )? )
\* rule is the rule that accepts toks (0: none); a variable bound inside
\* `$( ... )` is bound to the sequence of its matches.
DelegateMatch(toks) ==
    LET close == Find(toks, "]", 3)
        list == SubSeq(toks, 3, close - 1)
        name == close + 2 + FragLen("vis", toks, close + 2)
        rest == SubSeq(toks, name + 1, Len(toks))
        parens == rest # <<>> /\ rest[1] = "("
        plist == IF parens THEN SubSeq(rest, 2, Find(rest, ")", 2) - 1) ELSE <<>>
        tail == IF parens THEN SubSeq(rest, Find(rest, ")", 2) + 1, Len(rest)) ELSE rest
        ok == /\ FragLen("ty", toks, 1) = 1 /\ Len(toks) >= 2 /\ toks[2] = "["
              /\ close + 2 <= Len(toks) /\ toks[close + 1] = "=>"
              /\ list = <<>> \/ Len(list) % 2 = 1
              /\ \A k \in 1..Len(list) :
                    IF k % 2 = 1 THEN IsIdentTok(list[k]) ELSE list[k] = ","
              /\ FragLen("ident", toks, name) = 1
              /\ tail = <<>> \/ (Len(tail) = 2 /\ tail[1] = "->"
                                  /\ FragLen("ty", tail, 2) = 1)
              /\ parens => /\ Len(plist) % 4 = 3
                           /\ \A k \in 1..Len(plist) :
                                 CASE k % 4 = 1 -> IsIdentTok(plist[k])
                                   [] k % 4 = 2 -> plist[k] = ":"
                                   [] k % 4 = 3 -> TRUE
                                   [] OTHER -> plist[k] = ","
    IN  [rule |-> IF ~ok THEN 0 ELSE IF parens THEN 2 ELSE 1,
         b |-> [enum_type |-> <<toks[1]>>,
                variant_name |-> [k \in 1..((Len(list) + 1) \div 2) |-> list[2 * k - 1]],
                fn_vis |-> SubSeq(toks, close + 2, name - 1),
                fn_name |-> <<toks[name]>>,
                param_name |-> [k \in 1..((Len(plist) + 1) \div 4) |-> plist[4 * k - 3]],
                param_type |-> [k \in 1..((Len(plist) + 1) \div 4) |-> plist[4 * k - 1]],
                fn_type |-> SubSeq(tail, 2, Len(tail))]]

\* The metavariables bound inside a `$( ... )` of the matchers.
Repeating == {"variant_name", "param_name", "param_type", "fn_type"}

\* How often a `$( ... )` of a transcriber that mentions the metavariables
\* vars is repeated, inside repetitions over the metavariables `outer`: the
\* number of matches of the variables that still repeat at this depth; -1 if
\* none of them does, -2 if they disagree.  Both are errors of the expansion.
Lockstep(vars, outer, b) ==
    LET sizes == {Len(b[v]) : v \in (vars \cap Repeating) \ outer}
    IN  IF sizes = {} THEN -1
        ELSE IF Cardinality(sizes) > 1 THEN -2
        ELSE CHOOSE n \in sizes : TRUE

\* The transcribers: the metavariables in `$( Self::$variant_name(value) =>
\* value.$fn_name(<args>), )*`, and those in the `$($param_name),+` inside it.
impl_delegate_for_all_base == [arms |-> {"variant_name", "fn_name"}, args |-> {}]

impl_delegate_for_all_params ==
    [arms |-> {"variant_name", "fn_name", "param_name"}, args |-> {"param_name"}]

\* macro_rules! impl_delegate_for_all
impl_delegate_for_all == <<impl_delegate_for_all_base, impl_delegate_for_all_params>>

\* The method `impl_delegate_for_all!(toks)` expands to.
ExpandDelegate(toks) ==
    LET m == DelegateMatch(toks)
        out == impl_delegate_for_all[m.rule]
        n == Lockstep(out.arms, {}, m.b)
        inner == IF out.args = {} THEN 0 ELSE Lockstep(out.args, out.arms, m.b)
    IN  IF m.rule = 0 \/ n < 0 \/ inner < 0 THEN NoRuleMatches
        ELSE [vis |-> m.b.fn_vis, name |-> m.b.fn_name[1], recv |-> "&self",
              enum |-> m.b.enum_type,
              params |-> [k \in 1..Len(m.b.param_name) |->
                            <<m.b.param_name[k], m.b.param_type[k]>>],
              ret |-> m.b.fn_type,
              arms |-> [k \in 1..n |->
                          [variant |-> m.b.variant_name[k], call |-> m.b.fn_name[1],
                           args |-> IF out.args = {} THEN <<>> ELSE m.b.param_name]]]

\* The methods of the payload types that are delegated to: `to_string(&self)
\* -> String` and `eq(&self, other: &T) -> bool`.
PayloadMethod(ty, name) ==
    CASE name = "to_string" -> [params |-> <<>>, ret |-> <<"String">>]
      [] name = "eq" -> [params |-> <<"&" \o ty>>, ret |-> <<"bool">>]

\* Whether the emitted method type-checks for the enum with the variants
\* declared: the arms name declared variants and cover them all, and every
\* payload has the method with these parameter types and this return type.
DelegateCompiles(m, declared) ==
    /\ "arms" \in DOMAIN m
    /\ m.enum = <<"TypedAddress">>
    /\ {m.arms[k].variant : k \in 1..Len(m.arms)} = declared
    /\ \A v \in declared :
          /\ PayloadMethod(PayloadType(v)[1], m.name).params
                = [k \in 1..Len(m.params) |-> m.params[k][2]]
          /\ PayloadMethod(PayloadType(v)[1], m.name).ret = m.ret

\* The result of `payload.name(args)`.
Delegated(payload, name, args) == [call |-> name, on |-> payload, args |-> args]

\* The result of calling the emitted method on enum value e: the first arm
\* that matches.
RunDelegate(m, e, args) ==
    LET k == CHOOSE k \in 1..Len(m.arms) :
                /\ m.arms[k].variant = e.variant
                /\ \A h \in 1..(k - 1) : m.arms[h].variant # e.variant
    IN  Delegated(e.payload, m.arms[k].call,
                  [h \in 1..Len(m.arms[k].args) |-> args[h]])

(***************************************************************************)
(* variant/impls.rs: impl_display_for_enum!                                *)
(***************************************************************************)

\* The matcher ($enum_type:ty [ $( $variant_name:ident ),* ]).
DisplayMatch(toks) ==
    LET list == SubSeq(toks, 3, Len(toks) - 1)
        ok == /\ Len(toks) >= 3 /\ FragLen("ty", toks, 1) = 1
              /\ toks[2] = "[" /\ toks[Len(toks)] = "]"
              /\ list = <<>> \/ Len(list) % 2 = 1
              /\ \A k \in 1..Len(list) :
                    IF k % 2 = 1 THEN IsIdentTok(list[k]) ELSE list[k] = ","
    IN  [rule |-> IF ok THEN 1 ELSE 0,
         b |-> [enum_type |-> <<toks[1]>>,
                variant_name |-> [k \in 1..((Len(list) + 1) \div 2) |-> list[2 * k - 1]]]]

\* The tokens of a match body: an arm `Self::V(value) => value.call(args)`
\* and the comma.
Arm(v, call, args) == [variant |-> v, call |-> call, args |-> args]
Comma == [punct |-> ","]

\* The transcription of `$( <arm> <after> ) <sep> *` for the matches k.. of
\* $variant_name: the repeated tokens once per match, with the tokens of the
\* separator between two repetitions and not after the last.
RECURSIVE Repeat(_, _, _, _, _)
Repeat(variants, k, call, after, sep) ==
    IF k > Len(variants) THEN <<>>
    ELSE (IF k > 1 THEN sep ELSE <<>>)
            \o <<Arm(variants[k], call, <<"f">>)>> \o after
            \o Repeat(variants, k + 1, call, after, sep)

\* The transcriber `$( Self::$variant_name(value) => value.fmt(f), ),*`: each
\* repetition ends with a comma, and the repetition is separated by commas.
impl_display_for_enum == [call |-> "fmt", after |-> <<Comma>>, sep |-> <<Comma>>]

\* `impl ::std::fmt::Display for $enum_type { fn fmt(&self, f) -> Result {
\* match self { <body> } } }` as impl_display_for_enum!(toks) expands to it.
ExpandDisplay(toks) ==
    LET m == DisplayMatch(toks)
        out == impl_display_for_enum
    IN  IF m.rule = 0 THEN NoRuleMatches
        ELSE [vis |-> <<>>, name |-> "fmt", recv |-> "&self", enum |-> m.b.enum_type,
              listed |-> m.b.variant_name,
              body |-> Repeat(m.b.variant_name, 1, out.call, out.after, out.sep)]

\* The arms of a match body as the parser reads it: an arm, then a comma
\* (which may be missing after the last arm); a comma where an arm is to
\* begin is a syntax error.
RECURSIVE MatchArms(_, _)
MatchArms(body, k) ==
    IF k > Len(body) THEN [ok |-> TRUE, arms |-> <<>>]
    ELSE IF body[k] = Comma THEN [ok |-> FALSE, arms |-> <<>>]
    ELSE IF k < Len(body) /\ body[k + 1] # Comma THEN [ok |-> FALSE, arms |-> <<>>]
    ELSE LET rest == MatchArms(body, k + 2)
         IN  [ok |-> rest.ok, arms |-> <<body[k]>> \o rest.arms]

\* Whether the emitted impl compiles for the enum with the variants declared:
\* the body parses and its arms name declared variants and cover them all
\* (every payload type of TypedAddress implements Display).
DisplayCompiles(m, declared) ==
    /\ "listed" \in DOMAIN m
    /\ m.enum = <<"TypedAddress">>
    /\ MatchArms(m.body, 1).ok
    /\ {m.listed[k] : k \in 1..Len(m.listed)} = declared

\* The result of fmt on enum value e: the first arm that matches.
RunDisplay(m, e) ==
    LET arms == MatchArms(m.body, 1).arms
        k == CHOOSE k \in 1..Len(arms) :
                /\ arms[k].variant = e.variant
                /\ \A h \in 1..(k - 1) : arms[h].variant # e.variant
    IN  Delegated(e.payload, arms[k].call, arms[k].args)

(***************************************************************************)
(* The impl blocks                                                         *)
(***************************************************************************)

Keywords == {"copy", "into", "optional"}

\* Keyword sequences an invocation may carry between `=>` and the type.
KeywordSeqs == {<<>>} \cup {<<k>> : k \in Keywords}
                  \cup {<<k1, k2>> : k1 \in Keywords, k2 \in Keywords}

\* The function names used with field f in the two-name form: the field's own
\* name, a name that is no field, and the names of the other fields that are
\* optional exactly if f is.
LongNames(f) == {f, "alias"} \cup {g \in Fields : IsOptional(g) = IsOptional(f)}

\* The tokens of `macro!(pub name => [field,] kws ty)`; unset! takes
\* `pub name [=> field]`.
Tokens(macro, name, field, long, kws, ty) ==
    IF macro = "unset"
    THEN <<"pub", name>> \o (IF long THEN <<"=>", field>> ELSE <<>>)
    ELSE <<"pub", name, "=>">> \o (IF long THEN <<field, ",">> ELSE <<>>)
            \o kws \o <<ty>>

Invocation(macro, toks) == [macro |-> macro, toks |-> toks]

\* The invocations for field f under function name `name`.
InvocationsFor(name, f, long) ==
    {Invocation(mac, Tokens(mac, name, f, long, kws, ty)) :
        mac \in FieldMacros, kws \in KeywordSeqs, ty \in TypeTokens}

\* <<name, field, long>>: the function name, the field and whether the
\* two-name form `name => field, ...` is written.
Namings ==
    {<<f, f, FALSE>> : f \in Fields}
        \cup UNION {{<<name, f, TRUE>> : name \in LongNames(f)} : f \in Fields}

Range(seq) == {seq[k] : k \in 1..Len(seq)}

\* What an invocation of a variant macro carries after the names: nothing,
\* `=> ()`, `=> [copy] Type`, `=> [const] value, Type`.
VariantArgs ==
    {<<>>, <<"=>", "()">>}
        \cup {<<"=>">> \o kws \o ty :
                kws \in {<<>>, <<"copy">>}, ty \in {<<"Address">>, <<"u64">>}}
        \cup {<<"=>">> \o kws \o value \o <<",">> \o ty :
                kws \in {<<>>, <<"const">>},
                value \in {<<"true">>, <<"Error", "::", "InvalidAddressError">>},
                ty \in {<<"bool">>, <<"Error">>}}

\* The tokens of `macro!(pub Variant [, function_name] <args>)`.
VariantTokens(variant, name, long, args) ==
    <<"pub", variant>> \o (IF long THEN <<",", name>> ELSE <<>>) \o args

\* The function names used with variant v in the two-name form: the
\* variant's own name, the names of the other variants of its kind, and
\* names that are no variant.
FunctionNames(v) ==
    {"address", "external_id", "X_Ref"}
        \cup {w \in Variants : HasData(w) = HasData(v)}

\* <<name, variant, long>> as for the fields.
VariantNamings ==
    {<<v, v, FALSE>> : v \in Variants}
        \cup UNION {{<<name, v, TRUE>> : name \in FunctionNames(v)} : v \in Variants}

\* The tokens of `impl_from_for_variant!([into] Type => TypedAddress, Variant)`.
FromTokens(kws, ty, v) == kws \o ty \o <<"=>", "TypedAddress", ",", v>>

VariantInvocationsFor(name, v, long) ==
    {Invocation(mac, VariantTokens(v, name, long, args)) :
        mac \in VariantMacros, args \in VariantArgs}
      \cup {Invocation("impl_from_for_variant", FromTokens(kws, ty, v)) :
                kws \in {<<>>, <<"into">>}, ty \in {<<"Address">>, <<"u64">>}}

\* The expansion of every candidate invocation.
Expansion ==
    [i \in UNION {InvocationsFor(n[1], n[2], n[3]) : n \in Namings}
            \cup UNION {VariantInvocationsFor(n[1], n[2], n[3]) : n \in VariantNamings}
        |-> Expand(i.macro, i.toks)]

ExpandInv(inv) == Expansion[inv]

\* An invocation is well formed if every method it expands to compiles.
WellFormed(inv) == \A m \in Range(ExpandInv(inv)) : Compiles(m)

WellFormedFor ==
    [n \in Namings |-> {i \in InvocationsFor(n[1], n[2], n[3]) : WellFormed(i)}]

VariantWellFormedFor ==
    [n \in VariantNamings |->
        {i \in VariantInvocationsFor(n[1], n[2], n[3]) :
            \A m \in Range(ExpandInv(i)) : VariantCompiles(m)}]

MethodNames(inv) == {m.name : m \in Range(ExpandInv(inv))}

NoClash(b, j) == \A h \in b : MethodNames(h) \cap MethodNames(j) = {}

\* Blocks of at most k invocations out of invs, no method defined twice.
RECURSIVE Blocks(_, _)
Blocks(invs, k) ==
    IF k = 0 THEN {{}}
    ELSE LET smaller == Blocks(invs, k - 1)
         IN  smaller \cup
             UNION {{b \cup {j} : j \in {i \in invs : NoClash(b, i)}} : b \in smaller}

\* The impl blocks: at most MaxInvocations well-formed invocations for one
\* field under one function name.
ImplBlocks ==
    UNION {Blocks(WellFormedFor[n], MaxInvocations) \ {{}} : n \in Namings}

MethodsOf(block) == UNION {Range(ExpandInv(i)) : i \in block}

(***************************************************************************)
(* Calling the generated methods                                           *)
(***************************************************************************)

VARIABLES
    naming,    \* <<name, field, long>> the invocations of the block are written with
    impl,      \* the macro invocations of `impl Address { ... }`
    methods,   \* the methods they expand to
    self,      \* the Address value the caller holds
    borrow,    \* the field a live `&mut` from <name>_mut points to, or ""
    last,      \* the most recent call: kind, method, argument, result, struct before
    lastMut,   \* the most recent mutation: kind, argument, and what came before it
    initial    \* the Address value before the first call

vars == <<naming, impl, methods, self, borrow, last, lastMut, initial>>

NoArg == [kind |-> "none"]
NoMethod == NoRuleMatches

Call(op, m, arg, ret, pre) ==
    [op |-> op, m |-> m, arg |-> arg, ret |-> ret, pre |-> pre]

\* prevKind: whether the mutation before this one was with_<name> or
\* unset_<name>.
Mutation(kind, arg, before) ==
    [kind |-> kind, arg |-> arg,
     prevKind |-> IF before.kind \in {"with", "unset"} THEN before.kind ELSE "none"]

Init ==
    /\ naming \in Namings
    /\ impl \in Blocks(WellFormedFor[naming], MaxInvocations) \ {{}}
    /\ methods = MethodsOf(impl)
    /\ \E v \in FieldValues(naming[2]) : self = [Default EXCEPT ![naming[2]] = v]
    /\ initial = self
    /\ borrow = ""
    /\ last = Call("none", NoMethod, NoArg, Unit, self)
    /\ lastMut = [kind |-> "none", arg |-> NoArg, prevKind |-> "none"]

\* let r = a.name();   (get!: `&self`)
CallGet(m) ==
    /\ borrow = ""
    /\ m.recv = "&self"
    /\ last' = Call("get", m, NoArg, Exec(m, self, NoArg).ret, self)
    /\ self' = Exec(m, self, NoArg).self
    /\ UNCHANGED <<naming, impl, methods, borrow, lastMut, initial>>

\* a.set_name(v);   (set!: `&mut self, value`)
CallSet(m, v) ==
    /\ borrow = ""
    /\ m.recv = "&mut self" /\ m.param # "" /\ v \in Args(m)
    /\ last' = Call("set", m, v, Exec(m, self, v).ret, self)
    /\ self' = Exec(m, self, v).self
    /\ lastMut' = Mutation("set", v, lastMut)
    /\ UNCHANGED <<naming, impl, methods, borrow, initial>>

\* a.unset_name();   (unset!: `&mut self`)
CallUnset(m) ==
    /\ borrow = ""
    /\ m.recv = "&mut self" /\ m.param = "" /\ m.ret = "()"
    /\ last' = Call("unset", m, NoArg, Exec(m, self, NoArg).ret, self)
    /\ self' = Exec(m, self, NoArg).self
    /\ lastMut' = Mutation("unset", NoArg, lastMut)
    /\ UNCHANGED <<naming, impl, methods, borrow, initial>>

\* let a = a.with_name(v);   (with!: `mut self, value` -> Self)
CallWith(m, v) ==
    /\ borrow = ""
    /\ m.recv = "mut self" /\ v \in Args(m)
    /\ last' = Call("with", m, v, Exec(m, self, v).ret, self)
    /\ self' = Exec(m, self, v).ret
    /\ lastMut' = Mutation("with", v, lastMut)
    /\ UNCHANGED <<naming, impl, methods, borrow, initial>>

\* let r = a.name_mut();   (get_mut!: `&mut self` -> &mut T)
CallGetMut(m) ==
    /\ borrow = ""
    /\ m.recv = "&mut self" /\ m.ret = "&mut T"
    /\ last' = Call("get_mut", m, NoArg, Exec(m, self, NoArg).ret, self)
    /\ self' = Exec(m, self, NoArg).self
    /\ borrow' = Exec(m, self, NoArg).ret.place
    /\ UNCHANGED <<naming, impl, methods, lastMut, initial>>

\* *r = v;   through the live reference returned by name_mut()
WriteThrough(v) ==
    /\ borrow # ""
    /\ v \in FieldValues(borrow)
    /\ self' = [self EXCEPT ![borrow] = v]
    /\ last' = Call("write", last.m, v, Unit, self)
    /\ lastMut' = Mutation("write", v, lastMut)
    /\ UNCHANGED <<naming, impl, methods, borrow, initial>>

\* The reference returned by name_mut() goes out of scope.
Release ==
    /\ borrow # ""
    /\ borrow' = ""
    /\ UNCHANGED <<naming, impl, methods, self, last, lastMut, initial>>

AllArgs == UNION {ValuesOf(t) : t \in UNION {IntoSources(ty) : ty \in TypeTokens}}
AllFieldValues == UNION {FieldValues(f) : f \in Fields}

Next ==
    \/ \E m \in methods : CallGet(m)
    \/ \E m \in methods : \E v \in AllArgs : CallSet(m, v)
    \/ \E m \in methods : CallUnset(m)
    \/ \E m \in methods : \E v \in AllArgs : CallWith(m, v)
    \/ \E m \in methods : CallGetMut(m)
    \/ \E v \in AllFieldValues : WriteThrough(v)
    \/ Release

Spec == Init /\ [][Next]_vars

TypeOK ==
    /\ naming \in Namings /\ impl \in ImplBlocks
    /\ methods = MethodsOf(impl)
    /\ self \in [Fields -> AllFieldValues]
    /\ \A f \in Fields : self[f] \in FieldValues(f)
    /\ borrow \in Fields \cup {""}

(***************************************************************************)
(* Calling the generated methods on a struct with every field set         *)
(***************************************************************************)

\* An Address whose fields all hold a value that is not the default one.
Filled ==
    [f \in Fields |-> IF IsOptional(f) THEN Some(Val(BaseType(f), MaxVal))
                      ELSE Val(BaseType(f), MaxVal)]

\* As Init, with the fields the block is not written for taken from Filled.
FrameInit ==
    /\ naming \in Namings
    /\ impl \in Blocks(WellFormedFor[naming], MaxInvocations) \ {{}}
    /\ methods = MethodsOf(impl)
    /\ \E v \in FieldValues(naming[2]) : self = [Filled EXCEPT ![naming[2]] = v]
    /\ initial = self
    /\ borrow = ""
    /\ last = Call("none", NoMethod, NoArg, Unit, self)
    /\ lastMut = [kind |-> "none", arg |-> NoArg, prevKind |-> "none"]

SpecFrame == FrameInit /\ [][Next]_vars

(***************************************************************************)
(* Calling the methods generated for the enum                              *)
(***************************************************************************)

\* The same variables, for `impl TypedAddress { ... }`: naming is
\* <<function name, variant, long>>, self is the TypedAddress value the caller
\* holds, and borrow is the variant whose payload a live `&mut` points to.
VariantInit ==
    /\ naming \in VariantNamings
    /\ impl \in Blocks(VariantWellFormedFor[naming], MaxInvocations) \ {{}}
    /\ methods = MethodsOf(impl)
    /\ self \in EnumValues
    /\ initial = self
    /\ borrow = ""
    /\ last = Call("none", NoMethod, NoArg, Unit, self)
    /\ lastMut = [kind |-> "none", arg |-> NoArg, prevKind |-> "none"]

\* let b = a.is_name();   (is_variant!: `&self` -> bool)
CallIs(m) ==
    /\ borrow = ""
    /\ m.recv = "&self" /\ m.ret = "bool"
    /\ last' = Call("is", m, NoArg, RunVariant(m, self), self)
    /\ UNCHANGED <<naming, impl, methods, self, borrow, lastMut, initial>>

\* let r = a.as_name();   (as_variant!: `&self` -> Option<..>)
CallAs(m) ==
    /\ borrow = ""
    /\ m.recv = "&self" /\ m.ret # "bool"
    /\ last' = Call("as", m, NoArg, RunVariant(m, self), self)
    /\ UNCHANGED <<naming, impl, methods, self, borrow, lastMut, initial>>

\* let r = a.as_name_mut();   (as_variant_mut!: `&mut self` -> Option<&mut T>)
CallAsMut(m) ==
    /\ borrow = ""
    /\ m.recv = "&mut self"
    /\ last' = Call("as_mut", m, NoArg, RunVariant(m, self), self)
    /\ borrow' = IF RunVariant(m, self) = None THEN "" ELSE RunVariant(m, self).val.place
    /\ UNCHANGED <<naming, impl, methods, self, lastMut, initial>>

\* *r = v;   through the live reference returned by as_name_mut()
WritePayload(v) ==
    /\ borrow # ""
    /\ v \in ValuesOf(PayloadType(borrow)[1])
    /\ self' = Enum(self.variant, v)
    /\ last' = Call("write", last.m, v, Unit, self)
    /\ lastMut' = Mutation("write", v, lastMut)
    /\ UNCHANGED <<naming, impl, methods, borrow, initial>>

\* let a: TypedAddress = v.into();   (impl_from_for_variant!: From::from)
CallFrom(m, v) ==
    /\ borrow = ""
    /\ m.ret = "Self" /\ v.ty \in FromSources(m)
    /\ self' = RunFrom(m, v)
    /\ last' = Call("from", m, v, RunFrom(m, v), self)
    /\ lastMut' = Mutation("from", v, lastMut)
    /\ UNCHANGED <<naming, impl, methods, borrow, initial>>

AllSources ==
    UNION {ValuesOf(t) : t \in UNION {IntoSources(PayloadType(v)[1]) :
                                        v \in {w \in Variants : HasData(w)}}}
AllPayloads == UNION {ValuesOf(PayloadType(v)[1]) : v \in {w \in Variants : HasData(w)}}

VariantNext ==
    \/ \E m \in methods : CallIs(m)
    \/ \E m \in methods : CallAs(m)
    \/ \E m \in methods : CallAsMut(m)
    \/ \E v \in AllPayloads : WritePayload(v)
    \/ Release
    \/ \E m \in methods : \E v \in AllSources : CallFrom(m, v)

SpecVariant == VariantInit /\ [][VariantNext]_vars

(***************************************************************************)
(* Calling the method generated by impl_delegate_for_all!                  *)
(***************************************************************************)

RECURSIVE Join(_)
Join(list) ==
    IF Len(list) <= 1 THEN list ELSE <<Head(list), ",">> \o Join(Tail(list))

\* The tokens of `impl_delegate_for_all!(TypedAddress [ list ] => pub name
\* [(other: Type)] [-> Type])`.
DelegateTokens(list, name, params, ret) ==
    <<"TypedAddress", "[">> \o Join(list) \o <<"]", "=>", "pub", name>>
        \o (IF params = <<>> THEN <<>> ELSE <<"(">> \o params \o <<")">>) \o ret

DataVariants == {v \in Variants : HasData(v)}

DelegateInvocations ==
    {Invocation("impl_delegate_for_all", DelegateTokens(list, name, params, ret)) :
        list \in UNION {[1..n -> DataVariants] : n \in 1..MaxListed},
        name \in {"to_string", "eq"},
        params \in {<<>>, <<"other", ":", "&Address">>, <<"other", ":", "&u64">>},
        ret \in {<<>>, <<"->", "String">>, <<"->", "bool">>}}

\* The same variables, for an enum that declares the data variants `naming`
\* of TypedAddress and one impl_delegate_for_all! invocation that compiles.
DelegateInit ==
    /\ naming \in (SUBSET DataVariants) \ {{}}
    /\ \E i \in DelegateInvocations :
          /\ DelegateCompiles(ExpandDelegate(i.toks), naming)
          /\ impl = {i}
          /\ methods = {ExpandDelegate(i.toks)}
    /\ self \in {e \in EnumValues : e.variant \in naming}
    /\ initial = self
    /\ borrow = ""
    /\ last = Call("none", NoMethod, NoArg, Unit, self)
    /\ lastMut = [kind |-> "none", arg |-> NoArg, prevKind |-> "none"]

\* let r = a.name(args);   (the delegating method: `&self`)
CallDelegate(m, args) ==
    /\ Len(args) = Len(m.params)
    /\ last' = Call("delegate", m, args, RunDelegate(m, self, args), self)
    /\ UNCHANGED <<naming, impl, methods, self, borrow, lastMut, initial>>

\* a = TypedAddress::V(..);   the caller stores another value of the enum
Construct(e) ==
    /\ e.variant \in naming /\ e # self
    /\ self' = e
    /\ UNCHANGED <<naming, impl, methods, borrow, last, lastMut, initial>>

DelegateNext ==
    \/ \E m \in methods : \E args \in {<<>>} \cup {<<v>> : v \in AllSources} :
          CallDelegate(m, args)
    \/ \E e \in EnumValues : Construct(e)

SpecDelegate == DelegateInit /\ [][DelegateNext]_vars

(***************************************************************************)
(* An enum with a predicate and a safe cast for every variant              *)
(***************************************************************************)

\* The ways to give variant v its is_ predicate and its as_ safe cast:
\* is_as_variant!(V => [copy] Type) or is_variant! and as_variant! side by
\* side, as in `impl TypedAddress` of the address book.
Covers(v) ==
    LET inv(mac, args) == Invocation(mac, VariantTokens(v, v, FALSE, args))
        ty == <<"=>">> \o PayloadType(v)
    IN  IF HasData(v)
        THEN {{inv("is_as_variant", ty)}, {inv("is_variant", ty), inv("as_variant", ty)}}
               \cup (IF IsCopy(PayloadType(v))
                     THEN {{inv("is_as_variant", <<"=>", "copy">> \o PayloadType(v))}}
                     ELSE {})
        ELSE {{inv("is_variant", <<>>), inv("as_variant", <<>>)},
              {inv("is_variant", <<"=>", "()">>), inv("as_variant", <<"=>", "()">>)}}

\* The blocks that cover every variant of `declared`.
RECURSIVE CoveringBlocks(_)
CoveringBlocks(declared) ==
    IF declared = {} THEN {{}}
    ELSE LET v == CHOOSE w \in declared : TRUE
         IN  {c \cup b : c \in Covers(v), b \in CoveringBlocks(declared \ {v})}

\* The same variables, for an enum that declares the variants `naming` of
\* TypedAddress and an impl block with a predicate and a safe cast for each.
EnumInit ==
    /\ naming \in (SUBSET Variants) \ {{}}
    /\ impl \in CoveringBlocks(naming)
    /\ methods = MethodsOf(impl)
    /\ self \in {e \in EnumValues : e.variant \in naming}
    /\ initial = self
    /\ borrow = ""
    /\ last = Call("none", NoMethod, NoArg, Unit, self)
    /\ lastMut = [kind |-> "none", arg |-> NoArg, prevKind |-> "none"]

EnumNext ==
    \/ \E m \in methods : CallIs(m)
    \/ \E m \in methods : CallAs(m)

SpecEnum == EnumInit /\ [][EnumNext]_vars

(***************************************************************************)
(* Expanding impl_display_for_enum! and calling fmt                        *)
(***************************************************************************)

\* impl_display_for_enum!(TypedAddress [ list ])
DisplayInvocations ==
    {Invocation("impl_display_for_enum", <<"TypedAddress", "[">> \o Join(list) \o <<"]">>) :
        list \in UNION {[1..n -> DataVariants] : n \in 0..MaxListed}}

\* The same variables, for a crate that declares the data variants `naming`
\* of TypedAddress and writes one impl_display_for_enum! invocation over
\* them; nothing is expanded yet, and self is the value the crate's test is
\* to format.
DisplayInit ==
    /\ naming \in (SUBSET DataVariants) \ {{}}
    /\ \E i \in DisplayInvocations :
          /\ Range(DisplayMatch(i.toks).b.variant_name) \subseteq naming
          /\ impl = {i}
    /\ methods = {}
    /\ self \in {e \in EnumValues : e.variant \in naming}
    /\ initial = self
    /\ borrow = ""
    /\ last = Call("none", NoMethod, NoArg, Unit, self)
    /\ lastMut = [kind |-> "none", arg |-> NoArg, prevKind |-> "none"]

\* The compiler expands the invocation and compiles what it expands to; the
\* crate has the method only if that succeeds.
ExpandBlock(i) ==
    /\ last.op = "none"
    /\ last' = Call("expand", ExpandDisplay(i.toks), NoArg,
                    DisplayCompiles(ExpandDisplay(i.toks), naming), self)
    /\ methods' = IF DisplayCompiles(ExpandDisplay(i.toks), naming)
                  THEN {ExpandDisplay(i.toks)} ELSE {}
    /\ UNCHANGED <<naming, impl, self, borrow, lastMut, initial>>

\* write!(f, "{}", a)   (Display::fmt: `&self, f`)
CallFmt(m) ==
    /\ last' = Call("fmt", m, <<"f">>, RunDisplay(m, self), self)
    /\ UNCHANGED <<naming, impl, methods, self, borrow, lastMut, initial>>

DisplayNext ==
    \/ \E i \in impl : ExpandBlock(i)
    \/ \E m \in methods : CallFmt(m)

SpecDisplay == DisplayInit /\ [][DisplayNext]_vars

(***************************************************************************)
(* Calling the methods of the struct's and of the enum's impl block        *)
(***************************************************************************)

\* Whether the block is `impl Address` (it is `impl TypedAddress` otherwise).
OnStruct == naming[2] \in Fields

ReadInit == Init \/ VariantInit

ReadNext ==
    \/ OnStruct /\ Next
    \/ ~OnStruct /\ VariantNext

SpecRead == ReadInit /\ [][ReadNext]_vars

(***************************************************************************)
(* Expanding the macros of an impl block                                   *)
(*                                                                         *)
(* The same variables, for the expansion of a block step by step: impl is  *)
(* the block as written, self the macro calls that are still to expand     *)
(* (each with the invocation of the block it comes from and the chain of   *)
(* <<macro, rule>> that led to it), methods the methods emitted so far     *)
(* (each with the invocation it comes from), and last the most recent      *)
(* expansion.  The calls are expanded in any order.                        *)
(***************************************************************************)

\* The invocations of every documented keyword form, whatever the type of
\* the field or the variant: some rule matches at every level.
MatchedFor ==
    [n \in Namings \cup VariantNamings |->
        {i \in (IF n \in Namings THEN InvocationsFor(n[1], n[2], n[3])
                ELSE VariantInvocationsFor(n[1], n[2], n[3])) :
            NoRuleMatches \notin Range(ExpandInv(i))}]

Pending(inv, origin, chain) ==
    [macro |-> inv.macro, toks |-> inv.toks, origin |-> origin, chain |-> chain]

NoCall == Pending(Invocation("", <<>>), Invocation("", <<>>), <<>>)

Expanded(call, rule, emitted, invoked) ==
    [call |-> call, rule |-> rule, emitted |-> emitted, invoked |-> invoked]

\* The method or `from` function that item `it` of a transcriber emits.
Emit(it, b) ==
    IF it.op = "fn" THEN Method(it, b)
    ELSE IF it.op = "vfn" THEN VariantMethod(it, b)
    ELSE FromImpl(it, b)

\* Transcribe whose rules without field or function name re-invoke the form
\* they were invoked with.
Transcribe_SameForm(macro, toks) ==
    CHOOSE t \in
        {IF k = 0
         THEN [rule |-> 0, emitted |-> {NoRuleMatches}, invoked |-> {}]
         ELSE CHOOSE r \in
                {[rule |-> k,
                  emitted |-> {Emit(it, b) : it \in {o \in out : o.op # "call"}},
                  invoked |-> {IF it.macro = macro THEN Invocation(macro, toks)
                               ELSE Invocation(it.macro, Instantiate(it.args, b)) :
                                  it \in {o \in out : o.op = "call"}}] :
                    b \in {Match(Rules(macro)[k].pat, toks).b},
                    out \in {Range(Rules(macro)[k].out)}} : TRUE :
            k \in {FirstMatch(Rules(macro), toks)}} : TRUE

\* One expansion of `macro!(toks)`: the rule k selected (0: none), the
\* methods its transcriber emits under the bindings b of its matcher and
\* the macro calls it leaves in the block.
Transcribe(macro, toks) ==
    CHOOSE t \in
        {IF k = 0
         THEN [rule |-> 0, emitted |-> {NoRuleMatches}, invoked |-> {}]
         ELSE CHOOSE r \in
                {[rule |-> k,
                  emitted |-> {Emit(it, b) : it \in {o \in out : o.op # "call"}},
                  invoked |-> {Invocation(it.macro, Instantiate(it.args, b)) :
                                  it \in {o \in out : o.op = "call"}}] :
                    b \in {Match(Rules(macro)[k].pat, toks).b},
                    out \in {Range(Rules(macro)[k].out)}} : TRUE :
            k \in {FirstMatch(Rules(macro), toks)}} : TRUE

\* A block of well-formed invocations, or one invocation of a documented
\* form (the macros are expanded before the types are checked); nothing is
\* expanded yet.
ExpandInit ==
    /\ naming \in Namings \cup VariantNamings
    /\ impl \in (Blocks(IF naming \in Namings THEN WellFormedFor[naming]
                        ELSE VariantWellFormedFor[naming], MaxInvocations) \ {{}})
                    \cup {{i} : i \in MatchedFor[naming]}
    /\ methods = {}
    /\ self = {Pending(i, i, <<>>) : i \in impl}
    /\ initial = self
    /\ borrow = ""
    /\ last = Expanded(NoCall, 0, {}, {})
    /\ lastMut = [kind |-> "none", arg |-> NoArg, prevKind |-> "none"]

\* ExpandStep for a compiler that emits nothing into a block that already
\* has methods.
ExpandStep_OncePerBlock(c) ==
    \E t \in {Transcribe(c.macro, c.toks)} :
        /\ self' = (self \ {c}) \cup
                    {Pending(i, c.origin, Append(c.chain, <<c.macro, t.rule>>)) :
                        i \in t.invoked}
        /\ methods' = IF methods # {} THEN methods
                      ELSE methods \cup {[of |-> c.origin, m |-> m] : m \in t.emitted}
        /\ last' = Expanded(c, t.rule, t.emitted, t.invoked)
        /\ UNCHANGED <<naming, impl, borrow, lastMut, initial>>

\* The compiler expands one macro call of the block: the call is replaced by
\* what the selected rule transcribes.
ExpandStep(c) ==
    \E t \in {Transcribe(c.macro, c.toks)} :
        /\ self' = (self \ {c}) \cup
                    {Pending(i, c.origin, Append(c.chain, <<c.macro, t.rule>>)) :
                        i \in t.invoked}
        /\ methods' = methods \cup {[of |-> c.origin, m |-> m] : m \in t.emitted}
        /\ last' = Expanded(c, t.rule, t.emitted, t.invoked)
        /\ UNCHANGED <<naming, impl, borrow, lastMut, initial>>

ExpandNext == \E c \in self : ExpandStep(c)

SpecExpand == ExpandInit /\ [][ExpandNext]_vars

\* A block of one well-formed invocation.
AloneInit ==
    /\ ExpandInit
    /\ impl \in Blocks(IF naming \in Namings THEN WellFormedFor[naming]
                       ELSE VariantWellFormedFor[naming], 1)

\* The expansion of one invocation; the compiler expands every macro call it
\* finds.
SpecExpandFair == AloneInit /\ [][ExpandNext]_vars /\ WF_vars(ExpandNext)

(***************************************************************************)
(* Properties                                                              *)
(***************************************************************************)

\* The name, the field and the declared type T the block is written for.
TheName == naming[1]
TheField == naming[2]
TheType == BaseType(naming[2])

\* The invocations of the block that emit method m, and whether one of them
\* carries the keyword kw.
GeneratedBy(m) == {i \in impl : m \in Range(ExpandInv(i))}
WithKeyword(m, kw) == \E i \in GeneratedBy(m) : kw \in Range(i.toks)

\* The argument v as a value of the field's base type: v itself, or v.into()
\* when v is of another type.
AsFieldType(v) == IF v.ty = TheType THEN v ELSE Into(v, TheType)

\* What a getter with return type `ret` shows when the field holds the plain
\* value w (Some(w) for an Option field).
Shows(ret, w) ==
    CASE ret = "&T" -> Ref(TheField, w)
      [] ret = "T" -> w
      [] ret = "Option<&T>" -> Some(Ref(TheField, w))
      [] ret = "Option<T>" -> Some(w)

\* C1: when the last mutating call was set_<name>(v), the getter <name>()
\* returns v: a reference to the field holding v (reference getter), v itself
\* (copy), Some(&v) (optional) or Some(v) (optional copy), whatever the field
\* held before.
C1_GetAfterSet ==
    (last.op = "get" /\ lastMut.kind = "set") =>
        last.ret = Shows(last.m.ret, AsFieldType(lastMut.arg))

\* A getter call after a set that changed the field, through the optional getter.
C1_Witness ==
    /\ last.op = "get" /\ lastMut.kind = "set"
    /\ self[TheField] # initial[TheField]
    /\ last.m.ret = "Option<&T>"

\* C2: a setter generated with `optional` takes a plain T (or Into<T>), and
\* after set_<name>(v) the field is Some(v); it never leaves None.
C2_OptionalSetStoresSome ==
    (last.op = "set" /\ WithKeyword(last.m, "optional")) =>
        /\ last.m.param \in {"T", "Into<T>"}
        /\ last.arg \in UNION {ValuesOf(t) : t \in IntoSources(TheType)}
        /\ self[TheField] = Some(AsFieldType(last.arg))
        /\ self[TheField] # None

\* An optional setter called on a field that held None.
C2_Witness ==
    /\ last.op = "set" /\ WithKeyword(last.m, "optional")
    /\ last.pre[TheField] = None
    /\ self[TheField] = Some(last.arg)

\* C3: after unset_<name>() the field is None, whatever it held, and the
\* optional getter then returns None.
C3_UnsetStoresNone ==
    /\ last.op = "unset" => self[TheField] = None
    /\ (last.op = "get" /\ lastMut.kind = "unset" /\ last.m.ret = "Option<&T>")
          => last.ret = None

\* unset_<name>() called on a field that held Some(..).
C3_Witness ==
    /\ last.op = "unset"
    /\ last.pre[TheField] # None
    /\ self[TheField] = None

\* Whether the block is one get_set_and_unset! or with_get_set_and_unset!
\* invocation that emitted method m.
FromSetUnsetBundle(m) ==
    \E i \in GeneratedBy(m) :
        i.macro \in {"get_set_and_unset", "with_get_set_and_unset"}

\* C4: the getter of get_set_and_unset! / with_get_set_and_unset! returns
\* Some(v) of the most recent set_<name>(v) if the last mutating call was a
\* set, None if it was an unset, and the initial field value if there was none.
C4_GetFollowsLastMutation ==
    (last.op = "get" /\ FromSetUnsetBundle(last.m)) =>
        CASE lastMut.kind = "set" ->
                last.ret = Some(Ref(TheField, AsFieldType(lastMut.arg)))
          [] lastMut.kind = "unset" -> last.ret = None
          [] lastMut.kind = "none" ->
                last.ret = IF initial[TheField] = None THEN None
                           ELSE Some(Ref(TheField, initial[TheField].val))
          [] OTHER -> TRUE

\* The bundle's getter called after set, unset, set.
C4_Witness ==
    /\ last.op = "get" /\ FromSetUnsetBundle(last.m)
    /\ lastMut.kind = "set" /\ lastMut.prevKind = "unset"
    /\ last.ret # None

\* The value with_<name>(v) or set_<name>(v) leaves in the field.
Stored(v) == IF IsOptional(TheField) THEN Some(AsFieldType(v)) ELSE AsFieldType(v)

\* C5: with_<name>(v) takes self by value and returns Self: the struct it was
\* called on with the field set to v (Some(v) for the optional forms); a later
\* set_<name>(w) overrides that value.
C5_WithReturnsUpdatedSelf ==
    /\ last.op = "with" =>
          /\ last.m.recv = "mut self" /\ last.m.ret = "Self"
          /\ last.ret = [last.pre EXCEPT ![TheField] = Stored(last.arg)]
          /\ self = last.ret
    /\ (last.op = "set" /\ lastMut.prevKind = "with") =>
          self[TheField] = Stored(last.arg)

\* set_<name>(w) called on the struct returned by with_<name>(v), w # v.
C5_Witness ==
    /\ last.op = "set" /\ lastMut.prevKind = "with"
    /\ last.pre[TheField] # self[TheField]
    /\ last.pre[TheField] # initial[TheField]

\* The method names the field macros derive from `name`.
NameOf(macro, name) ==
    CASE macro = "get" -> name
      [] macro = "get_mut" -> name \o "_mut"
      [] macro = "set" -> "set_" \o name
      [] macro = "unset" -> "unset_" \o name
      [] macro = "with" -> "with_" \o name

LeafMacros == {"get", "get_mut", "set", "unset", "with"}

\* The leaf macro a method comes from, read off its signature.
KindOf(m) ==
    CASE m.recv = "&self" -> "get"
      [] m.recv = "mut self" -> "with"
      [] m.recv = "&mut self" /\ m.ret = "&mut T" -> "get_mut"
      [] m.recv = "&mut self" /\ m.param = "" -> "unset"
      [] OTHER -> "set"

\* How an invocation is written: its function name, whether it is in the
\* two-name form, its field, its keywords and its type.
NameIn(i) == i.toks[2]
IsLong(i) ==
    IF i.macro = "unset" THEN Len(i.toks) = 4
    ELSE Len(i.toks) >= 5 /\ i.toks[5] = ","
FieldIn(i) == IF IsLong(i) THEN i.toks[4] ELSE i.toks[2]
KwsOf(i) == SubSeq(i.toks, IF IsLong(i) THEN 6 ELSE 4, Len(i.toks) - 1)
TypeOf(i) == i.toks[Len(i.toks)]

\* The invocation i of the one-name form rewritten in the two-name form with
\* field_name = name.
TwoNameForm(i) ==
    Invocation(i.macro,
               IF i.macro = "unset"
               THEN i.toks \o <<"=>", i.toks[2]>>
               ELSE SubSeq(i.toks, 1, 3) \o <<i.toks[2], ",">>
                       \o SubSeq(i.toks, 4, Len(i.toks)))

\* The invocations that can stand in an impl block.
WellFormedInvocations == UNION {WellFormedFor[n] : n \in Namings}

\* Per invocation: its methods are named after `name` and access `field_name`,
\* and the one-name form expands as the two-name form with field_name = name.
Decoupled ==
    [i \in WellFormedInvocations |->
        /\ \A m \in Range(ExpandInv(i)) :
              /\ m.field = FieldIn(i)
              /\ m.name \in {NameOf(k, NameIn(i)) : k \in LeafMacros}
        /\ ~IsLong(i) => ExpandInv(i) = ExpandInv(TwoNameForm(i))]

\* C6: in the two-name form `name => field_name, ...` the method names come
\* from `name` alone and every read and write goes to `field_name`; the
\* one-name form expands to what the two-name form with field_name = name
\* expands to.
C6_NameAndFieldDecoupled ==
    /\ \A i \in impl : Decoupled[i] /\ NameIn(i) = TheName /\ FieldIn(i) = TheField
    /\ last.op = "get" =>
          last.ret = IF self[TheField] = None THEN None
                     ELSE Shows(last.m.ret, IF IsOptional(TheField)
                                            THEN self[TheField].val
                                            ELSE self[TheField])
    /\ last.op = "get_mut" => last.ret.place = TheField
    /\ last.op \in {"set", "unset", "with", "write"} =>
          /\ \A g \in Fields \ {TheField} : self[g] = last.pre[g]
          /\ self[TheField] = IF last.op = "unset" THEN None
                              ELSE IF last.op = "write" THEN last.arg
                              ELSE Stored(last.arg)

\* A setter named after one field has written another: the two-name form with
\* `name` the name of a field other than field_name.
C6_Witness ==
    /\ naming[3] /\ TheName # TheField /\ TheName \in Fields
    /\ last.op = "set"
    /\ self[TheField] # last.pre[TheField]
    /\ self[TheName] = last.pre[TheName]

\* Per invocation: a leaf macro emits the one method NameOf gives, and every
\* method of any field macro carries the name of its kind.
Named ==
    [i \in WellFormedInvocations |->
        /\ i.macro \in LeafMacros => MethodNames(i) = {NameOf(i.macro, NameIn(i))}
        /\ \A m \in Range(ExpandInv(i)) :
              /\ m.name = NameOf(KindOf(m), NameIn(i))
              /\ (NameIn(i) = "number_on_street" /\ KindOf(m) = "set")
                    => m.name = "set_number_on_street"
              /\ (NameIn(i) = "street_2" /\ KindOf(m) = "unset")
                    => m.name = "unset_street_2"
              /\ (NameIn(i) = "street_1" /\ KindOf(m) = "with")
                    => m.name = "with_street_1"
              /\ (NameIn(i) = "street_1" /\ KindOf(m) = "get_mut")
                    => m.name = "street_1_mut"]

PlainForm(op) ==
    ExpandInv(Invocation(op, Tokens(op, TheName, TheField, naming[3],
                                    IF IsOptional(TheField) THEN <<"optional">>
                                    ELSE <<>>,
                                    TheType)))[1]

\* Per invocation of set! or with! with `into`: the method takes a value of
\* any type with Into<Type>.
AcceptsInto ==
    [i \in WellFormedInvocations |->
        (i.macro \in {"set", "with"} /\ "into" \in Range(i.toks)) =>
            \A m \in Range(ExpandInv(i)) :
                Args(m) = UNION {ValuesOf(t) : t \in IntoSources(TypeOf(i))}]

\* C8: with `into`, the method of set! or with! accepts a value of any type
\* with Into<Type> and stores value.into() (Some(value.into()) for `optional
\* into`): the struct afterwards is the one the plain form leaves when called
\* with the converted value.
C8_IntoStoresConverted ==
    /\ \A i \in impl : AcceptsInto[i]
    /\ (last.op \in {"set", "with"} /\ WithKeyword(last.m, "into")) =>
          /\ self[TheField] = (IF IsOptional(TheField)
                               THEN Some(Into(last.arg, TheType))
                               ELSE Into(last.arg, TheType))
          /\ self = Exec(PlainForm(last.op), last.pre, Into(last.arg, TheType)).self

\* with_<name> of `optional into` called with a value of a foreign type.
C8_Witness ==
    /\ last.op = "with" /\ WithKeyword(last.m, "into")
    /\ IsOptional(TheField)
    /\ last.arg.ty # TheType
    /\ self # last.pre

GetRoute(kws) ==
    CASE kws = <<"into">> -> <<>>
      [] kws = <<"optional", "into">> -> <<"optional">>
      [] OTHER -> kws

SetRoute(kws) ==
    CASE kws = <<"copy">> -> <<>>
      [] kws = <<"optional", "copy">> -> <<"optional">>
      [] OTHER -> kws

\* The methods of leaf macro `mac` invoked like i, with keywords kws.
LeafMethods(mac, i, kws) ==
    Range(ExpandInv(Invocation(mac, Tokens(mac, NameIn(i), FieldIn(i), IsLong(i),
                                           kws, TypeOf(i)))))

\* Per invocation of a combinator: it emits the methods of its leaf macros
\* under the routed keywords, and no others.
Routed ==
    [i \in WellFormedInvocations |->
        /\ i.macro = "get_and_set" =>
              /\ Len(ExpandInv(i)) = 2
              /\ Range(ExpandInv(i)) =
                    LeafMethods("get", i, GetRoute(KwsOf(i)))
                       \cup LeafMethods("set", i, SetRoute(KwsOf(i)))
        /\ i.macro = "with_get_and_set" =>
              /\ Len(ExpandInv(i)) = 3
              /\ Range(ExpandInv(i)) =
                    LeafMethods("get", i, GetRoute(KwsOf(i)))
                       \cup LeafMethods("set", i, SetRoute(KwsOf(i)))
                       \cup LeafMethods("with", i, SetRoute(KwsOf(i)))]

\* C10: get_and_set! emits exactly the methods of get! and set!, and
\* with_get_and_set! those of with!, get! and set!, where `copy` goes to get!
\* only, `into` to set! and with! only, and `optional` to all of them.
C10_CombinatorRouting ==
    /\ \A i \in impl : Routed[i]
    /\ methods = UNION {Range(ExpandInv(i)) : i \in impl}

\* The getter of with_get_and_set!(.. optional copy ..) has been called and
\* returned the Option<T> field.
C10_Witness ==
    /\ \E i \in impl :
          i.macro = "with_get_and_set" /\ KwsOf(i) = <<"optional", "copy">>
    /\ last.op = "get" /\ last.m.ret = "Option<T>"
    /\ last.ret = self[TheField]

\* Per invocation of a bundle with unset!: its methods are those of the
\* bundle without unset! invoked with `optional Type`, followed by the method
\* of unset!.
Bundled ==
    [i \in WellFormedInvocations |->
        LET unsetMethods ==
                ExpandInv(Invocation("unset",
                    Tokens("unset", NameIn(i), FieldIn(i), IsLong(i), <<>>, TypeOf(i))))
            optionalMethods(mac) ==
                ExpandInv(Invocation(mac,
                    Tokens(mac, NameIn(i), FieldIn(i), IsLong(i), <<"optional">>,
                           TypeOf(i))))
        IN  /\ i.macro = "get_set_and_unset" =>
                  /\ KwsOf(i) = <<>>
                  /\ ExpandInv(i) = optionalMethods("get_and_set") \o unsetMethods
            /\ i.macro = "with_get_set_and_unset" =>
                  /\ KwsOf(i) = <<>>
                  /\ ExpandInv(i) = optionalMethods("with_get_and_set") \o unsetMethods]

\* C11: get_set_and_unset!(viz name => [field_name,] Type) expands as
\* get_and_set!(.. optional Type) followed by unset!(viz name [=> field_name]),
\* and with_get_set_and_unset! as with_get_and_set!(.. optional Type) followed
\* by unset!: the caller writes `Type`, the getter and setter are the
\* `optional` ones.
C11_BundleWithUnset ==
    /\ \A i \in impl : Bundled[i]
    /\ \A i \in impl :
          i.macro \in {"get_set_and_unset", "with_get_set_and_unset"} =>
              /\ IsOptional(TheField)
              /\ \A m \in Range(ExpandInv(i)) :
                    /\ KindOf(m) = "get" => m.ret = "Option<&T>"
                    /\ KindOf(m) \in {"set", "with"} => m.body[1] = "self.f = Some(value)"
                    /\ KindOf(m) = "unset" => m.body = <<"self.f = None">>

\* The getter of a renamed with_get_set_and_unset! bundle returned None after
\* unset_<name>() cleared a field that held a value.
C11_Witness ==
    /\ \E i \in impl : i.macro = "with_get_set_and_unset" /\ IsLong(i)
    /\ last.op = "get" /\ last.ret = None
    /\ lastMut.kind = "unset"
    /\ initial[TheField] # None

(***************************************************************************)
(* Properties of the variant macros (specification SpecVariant)            *)
(***************************************************************************)

\* The variant the block is written for.
TheVariant == naming[2]

\* For each block naming n and each invocation i that can stand in the block:
\* is_variant! generates one predicate, true exactly on the values of the
\* variant.
IsVariantMatches ==
    [n \in VariantNamings |-> [i \in VariantWellFormedFor[n] |->
        i.macro = "is_variant" =>
          /\ Len(ExpandInv(i)) = 1
          /\ ExpandInv(i)[1].ret = "bool"
          /\ \A e \in EnumValues :
                RunVariant(ExpandInv(i)[1], e) = (e.variant = n[2])]]

\* C12: the predicate generated by is_variant! for variant V returns true if
\* and only if self is an instance of V, for every value of the enum: for a
\* unit variant (`V` or `V => ()`) and for a tuple variant (`V => Type`)
\* whatever its payload, with or without a distinct function name.
C12_IsVariantMatches ==
    /\ \A i \in impl : IsVariantMatches[naming][i]
    /\ (last.op = "is" /\ \E i \in GeneratedBy(last.m) : i.macro = "is_variant") =>
          last.ret = (last.pre.variant = TheVariant)

\* is_<name>() of a tuple variant, generated under a distinct function name,
\* has returned true on a value with a non-default payload.
C12_Witness ==
    /\ last.op = "is" /\ last.ret = TRUE
    /\ \E i \in GeneratedBy(last.m) : i.macro = "is_variant"
    /\ HasData(TheVariant) /\ naming[3] /\ TheName # TheVariant
    /\ last.pre.payload = Val(PayloadType(TheVariant)[1], MaxVal)

\* What an invocation of the block carries after the names.
ArgsOf(i) == SubSeq(i.toks, Find(i.toks, "=>", 1), Len(i.toks))

\* `=> Type` or `=> copy Type`.
IsDataForm(i) == Len(ArgsOf(i)) \in {2, 3} /\ ArgsOf(i)[Len(ArgsOf(i))] # "()"
IsCopyForm(i) == Len(ArgsOf(i)) = 3 /\ ArgsOf(i)[2] = "copy"

\* What the safe cast of invocation i is to return on enum value e.
SafeCastOf(v, i, e) ==
    IF e.variant # v THEN None
    ELSE IF IsCopyForm(i) THEN Some(e.payload)
    ELSE Some(Ref(v, e.payload))
SafeCast(i, e) == SafeCastOf(TheVariant, i, e)

\* For each block naming n and each invocation i that can stand in the block:
\* as_variant!(V => [copy] Type) generates one method, of the stated return
\* type, that is the safe cast on every value of the enum.
AsVariantCasts ==
    [n \in VariantNamings |-> [i \in VariantWellFormedFor[n] |->
        (i.macro = "as_variant" /\ IsDataForm(i)) =>
          /\ Len(ExpandInv(i)) = 1
          /\ ExpandInv(i)[1].ret = IF IsCopyForm(i) THEN "Option<T>" ELSE "Option<&T>"
          /\ ExpandInv(i)[1].ty = PayloadType(n[2])
          /\ \A e \in EnumValues :
                RunVariant(ExpandInv(i)[1], e) = SafeCastOf(n[2], i, e)]]

\* C13: the safe-cast method generated by as_variant!(V => Type) returns
\* Some(reference to the payload) if self is variant V and None for every
\* other variant; with `copy` it returns Some(copy of the payload), equal to
\* the stored payload, and None otherwise.
C13_AsVariantSafeCast ==
    /\ \A i \in impl : AsVariantCasts[naming][i]
    /\ \A i \in impl :
          (last.op = "as" /\ i \in GeneratedBy(last.m) /\ i.macro = "as_variant"
             /\ IsDataForm(i)) => last.ret = SafeCast(i, last.pre)

\* as_<name>() generated with `copy` has returned a copy of a non-default
\* payload.
C13_Witness ==
    /\ last.op = "as"
    /\ \E i \in GeneratedBy(last.m) : i.macro = "as_variant" /\ IsCopyForm(i)
    /\ last.ret = Some(Val("u64", MaxVal))
    /\ last.pre = Enum(TheVariant, Val("u64", MaxVal))

\* The invocation i with `=> ()` written after the names.
WithUnit(i) == Invocation(i.macro, i.toks \o <<"=>", "()">>)

\* C14: for a variant without data, the bare forms is_variant!(viz V [, name])
\* and as_variant!(viz V [, name]) are synonyms of the `=> ()` forms: they
\* generate the same method, and the as_ method has return type Option<()> and
\* returns Some(()) if self is V and None otherwise.
C14_BareFormsAreUnitForms ==
    /\ \A i \in impl : (i.macro \in {"is_variant", "as_variant"} /\ ArgsOf(i) = <<>>) =>
          /\ ~HasData(TheVariant)
          /\ ExpandInv(i) = ExpandInv(WithUnit(i))
          /\ i.macro = "as_variant" =>
                /\ ExpandInv(i)[1].ret = "Option<()>"
                /\ \A e \in EnumValues :
                      RunVariant(ExpandInv(i)[1], e)
                        = IF e.variant = TheVariant THEN Some(Unit) ELSE None
    /\ \A i \in impl :
          (last.op = "as" /\ i \in GeneratedBy(last.m) /\ i.macro = "as_variant"
             /\ ArgsOf(i) = <<>>) =>
                last.ret = IF last.pre.variant = TheVariant THEN Some(Unit) ELSE None

\* as_<name>() generated by the bare two-name form has returned Some(()).
C14_Witness ==
    /\ last.op = "as" /\ last.ret = Some(Unit)
    /\ \E i \in GeneratedBy(last.m) : i.macro = "as_variant" /\ ArgsOf(i) = <<>>
    /\ naming[3] /\ TheName # TheVariant

\* `=> value, Type` and `=> const value, Type`, and their parts.
IsValueForm(i) == Len(ArgsOf(i)) >= 4 /\ ArgsOf(i)[2] # "const"
IsConstValueForm(i) == Len(ArgsOf(i)) >= 5 /\ ArgsOf(i)[2] = "const"
ValueIn(i) ==
    SubSeq(ArgsOf(i), IF ArgsOf(i)[2] = "const" THEN 3 ELSE 2, Len(ArgsOf(i)) - 2)
ValueTypeIn(i) == <<ArgsOf(i)[Len(ArgsOf(i))]>>

\* What the method of a value form is to return on enum value e.
ValueCast(i, e) == IF e.variant = TheVariant THEN Some(Eval(ValueIn(i))) ELSE None

\* C15: the method generated by as_variant!(viz V [, name] => value, Type)
\* for a variant without data has return type Option<Type> and returns
\* Some(value) if self is V and None otherwise.
C15_ValueForm ==
    /\ \A i \in impl : (i.macro = "as_variant" /\ IsValueForm(i)) =>
          /\ ~HasData(TheVariant)
          /\ Len(ExpandInv(i)) = 1
          /\ ExpandInv(i)[1].ret = "Option<T>" /\ ExpandInv(i)[1].ty = ValueTypeIn(i)
          /\ \A e \in EnumValues : RunVariant(ExpandInv(i)[1], e) = ValueCast(i, e)
    /\ \A i \in impl :
          (last.op = "as" /\ i \in GeneratedBy(last.m) /\ i.macro = "as_variant"
             /\ IsValueForm(i)) => last.ret = ValueCast(i, last.pre)

\* as_<name>() generated by the two-name value form has returned the value
\* Error::InvalidAddressError.
C15_Witness ==
    /\ last.op = "as"
    /\ \E i \in GeneratedBy(last.m) : i.macro = "as_variant" /\ IsValueForm(i)
    /\ last.ret = Some(Eval(<<"Error", "::", "InvalidAddressError">>))
    /\ naming[3] /\ TheName # TheVariant

\* The const-value invocations that can be written for the block's variant
\* and function name, with a value of the declared type.
ConstValueInvocations ==
    {i \in VariantInvocationsFor(naming[1], naming[2], naming[3]) :
        /\ i.macro = "as_variant" /\ IsConstValueForm(i)
        /\ ExprType(ValueIn(i)) = ValueTypeIn(i)}

\* C16: the form as_variant!(viz V [, name] => const value, Type) generates a
\* safe-cast method for a variant without data whose return type is
\* Option<Type> and which returns Some(value) if the variant matches and None
\* otherwise.
C16_ConstValueForm ==
    ~HasData(TheVariant) =>
        \A i \in ConstValueInvocations :
            /\ Len(ExpandInv(i)) = 1
            /\ VariantCompiles(ExpandInv(i)[1])
            /\ ExpandInv(i)[1].ret = "Option<T>" /\ ExpandInv(i)[1].ty = ValueTypeIn(i)
            /\ \A e \in EnumValues : RunVariant(ExpandInv(i)[1], e) = ValueCast(i, e)

\* A block for a variant without data, for which the const-value form with
\* `true, bool` is selected by rule (5) and transcribes `$variant_type`.
C16_Witness ==
    /\ ~HasData(TheVariant)
    /\ \E i \in ConstValueInvocations :
          /\ ValueIn(i) = <<"true">>
          /\ ExpandInv(i)[1].arm = "CONST_VALUE"
          /\ ExpandInv(i)[1].ty = <<"$", "variant_type">>
    /\ last.op = "as"

\* The tokens of invocation i up to the names, and the leaf invocations
\* is_variant!(names => Type) and as_variant!(names => [copy] Type).
NamesOf(i) == SubSeq(i.toks, 1, Find(i.toks, "=>", 1) - 1)
IsLeaf(i) == Invocation("is_variant", NamesOf(i) \o <<"=>", ArgsOf(i)[Len(ArgsOf(i))]>>)
AsLeaf(i) == Invocation("as_variant", i.toks)

\* For each block naming n and each invocation i that can stand in the block:
\* is_as_variant! generates the methods of its two leaves, named is_<name> and
\* as_<name>, and they agree on every value of the enum.
IsAsVariantAgrees ==
    [n \in VariantNamings |-> [i \in VariantWellFormedFor[n] |->
        i.macro = "is_as_variant" =>
          /\ IsDataForm(i)
          /\ ExpandInv(i) = ExpandInv(IsLeaf(i)) \o ExpandInv(AsLeaf(i))
          /\ Len(ExpandInv(i)) = 2
          /\ ExpandInv(i)[1].name = "is_" \o Snake(n[1])
          /\ ExpandInv(i)[2].name = "as_" \o Snake(n[1])
          /\ \A e \in EnumValues :
                RunVariant(ExpandInv(i)[1], e) = (RunVariant(ExpandInv(i)[2], e) # None)]]

\* C17: is_as_variant!(V => [copy] Type) generates both the is_variant!
\* predicate and the as_variant! safe cast for V, and the two agree on every
\* value of the enum: is_<v>() is true if and only if as_<v>() is Some.
C17_IsAsVariantAgree ==
    /\ \A i \in impl : IsAsVariantAgrees[naming][i]
    /\ \A i \in impl : (i.macro = "is_as_variant" /\ last.op \in {"is", "as"}) =>
          /\ RunVariant(ExpandInv(i)[1], last.pre)
                = (RunVariant(ExpandInv(i)[2], last.pre) # None)
          /\ last.ret = RunVariant(IF last.op = "is" THEN ExpandInv(i)[1]
                                   ELSE ExpandInv(i)[2], last.pre)

\* as_<name>() of an is_as_variant! block with `copy` has returned Some on a
\* value of the variant.
C17_Witness ==
    /\ \E i \in impl : i.macro = "is_as_variant" /\ IsCopyForm(i)
    /\ last.op = "as" /\ last.ret # None
    /\ last.pre.variant = TheVariant

\* Whether a From invocation carries `into`, and the Type it names.
IsIntoForm(i) == i.toks[1] = "into"
FromType(i) == i.toks[IF IsIntoForm(i) THEN 2 ELSE 1]

\* The payload that from(v) is to store: v, or v.into() in the `into` form.
Converted(v) == Into(v, PayloadType(TheVariant)[1])

\* For each block naming n and each invocation i that can stand in the block:
\* impl_from_for_variant! generates one conversion, from Type (from every
\* T: Into<Type> in the `into` form), that wraps the (converted) value in the
\* variant.
FromConverts ==
    [n \in VariantNamings |-> [i \in VariantWellFormedFor[n] |->
        i.macro = "impl_from_for_variant" =>
          /\ Len(ExpandInv(i)) = 1
          /\ FromSources(ExpandInv(i)[1])
                = IF IsIntoForm(i) THEN IntoSources(FromType(i)) ELSE {FromType(i)}
          /\ \A t \in FromSources(ExpandInv(i)[1]) : \A v \in ValuesOf(t) :
                RunFrom(ExpandInv(i)[1], v)
                  = Enum(n[2], IF IsIntoForm(i) THEN Into(v, FromType(i)) ELSE v)]]

\* C18: impl_from_for_variant!(Type => Enum, Variant) generates a From
\* conversion with from(v) = Enum::Variant(v) for every v, and the `into` form
\* generates from(t) = Enum::Variant(t.into()) for every T: Into<Type>; on the
\* converted value the variant's is_ predicate is true and its as_ safe cast
\* returns the payload that was passed in.
C18_FromForVariant ==
    /\ \A i \in impl : FromConverts[naming][i]
    /\ last.op = "from" => last.ret = self
    /\ lastMut.kind = "from" =>
          /\ self = Enum(TheVariant, Converted(lastMut.arg))
          /\ last.op = "is" => last.ret = TRUE
          /\ last.op = "as" =>
                last.ret \in {Some(Converted(lastMut.arg)),
                              Some(Ref(TheVariant, Converted(lastMut.arg)))}

\* A value of another variant was replaced by from(v) with v of a foreign
\* type, and as_<name>() then returned the converted payload.
C18_Witness ==
    /\ lastMut.kind = "from" /\ lastMut.arg = Val("u32", MaxVal)
    /\ last.op = "as" /\ last.ret = Some(Val("u64", MaxVal))
    /\ initial.variant # TheVariant

(***************************************************************************)
(* Properties of impl_delegate_for_all! (specification SpecDelegate)       *)
(***************************************************************************)

\* The invocations that can be written for the declared enum: the list names
\* exactly its variants, and a method with this name, these parameter types
\* and this return type exists on the payload of each of them.
DelegatesFor(declared) ==
    {i \in DelegateInvocations :
        LET b == DelegateMatch(i.toks).b
        IN  /\ DelegateMatch(i.toks).rule # 0
            /\ Range(b.variant_name) = declared
            /\ \A v \in declared :
                  PayloadMethod(PayloadType(v)[1], b.fn_name[1])
                    = [params |-> b.param_type, ret |-> b.fn_type]}

\* C19: the method generated by impl_delegate_for_all!(Enum [V1, ..., Vn] =>
\* vis name [(params)] [-> Type]) returns, for every value of the enum, the
\* result of calling the same-named method with the same parameters on the
\* payload of whichever listed variant self is; it has exactly one match arm
\* per listed variant.
C19_DelegateForAll ==
    /\ \A i \in DelegatesFor(naming) :
          LET b == DelegateMatch(i.toks).b
              m == ExpandDelegate(i.toks)
          IN  /\ DelegateCompiles(m, naming)
              /\ m.name = b.fn_name[1]
              /\ [k \in 1..Len(m.arms) |-> m.arms[k].variant] = b.variant_name
              /\ \A e \in {x \in EnumValues : x.variant \in naming} :
                 \A args \in [1..Len(b.param_name) -> AllSources] :
                    RunDelegate(m, e, args) = Delegated(e.payload, b.fn_name[1], args)
    /\ last.op = "delegate" =>
          last.ret = Delegated(last.pre.payload, last.m.name, last.arg)

\* An enum of two variants with the same payload type, for which the form
\* with parameters can be written, and a call of the delegating method
\* generated by the form without parameters.
C19_Witness ==
    /\ naming = {"Home", "Work"}
    /\ \E i \in DelegatesFor(naming) : DelegateMatch(i.toks).rule = 2
    /\ last.op = "delegate" /\ last.pre.variant = "Work"
    /\ last.ret = Delegated(last.pre.payload, "to_string", <<>>)

\* The form without parameters alone: one arm per listed variant, and the
\* result is the payload's.
DelegateWithoutParameters ==
    /\ \A i \in DelegatesFor(naming) : DelegateMatch(i.toks).rule = 1 =>
          LET b == DelegateMatch(i.toks).b
              m == ExpandDelegate(i.toks)
          IN  /\ DelegateCompiles(m, naming)
              /\ [k \in 1..Len(m.arms) |-> m.arms[k].variant] = b.variant_name
              /\ \A e \in {x \in EnumValues : x.variant \in naming} :
                    RunDelegate(m, e, <<>>) = Delegated(e.payload, b.fn_name[1], <<>>)
    /\ \A i \in DelegatesFor(naming) : DelegateMatch(i.toks).rule = 2 =>
          ExpandDelegate(i.toks) = NoRuleMatches

(***************************************************************************)
(* Names of the variant methods (specification SpecVariant)                *)
(***************************************************************************)

\* The name written letter by letter with an underscore before each
\* upper-case letter that does not start the name (and, unless `always`, does
\* not follow an underscore), in lower case.
RECURSIVE Underscored(_, _, _)
Underscored(chars, k, always) ==
    IF k > Len(chars) THEN ""
    ELSE (IF IsUpper(chars[k]) /\ k > 1 /\ (always \/ chars[k - 1] # "_")
          THEN "_" ELSE "")
            \o ToLower(chars[k]) \o Underscored(chars, k + 1, always)

\* The method names expected of invocation i for the snake_case form s.
NamesFor(i, s) ==
    CASE i.macro = "is_variant" -> {"is_" \o s}
      [] i.macro = "as_variant" -> {"as_" \o s}
      [] i.macro = "as_variant_mut" -> {"as_" \o s \o "_mut"}
      [] i.macro = "is_as_variant" -> {"is_" \o s, "as_" \o s}
      [] OTHER -> MethodNames(i)

\* For each block naming n and each invocation i that can stand in the block:
\* whether the generated methods carry the names expected with an underscore
\* before every later upper-case letter, and with none after an underscore.
NamedAsStated ==
    [n \in VariantNamings |-> [i \in VariantWellFormedFor[n] |->
        MethodNames(i) = NamesFor(i, Underscored(Chars(n[1]), 1, TRUE))]]
NamedInSnakeCase ==
    [n \in VariantNamings |-> [i \in VariantWellFormedFor[n] |->
        /\ MethodNames(i) = NamesFor(i, Underscored(Chars(n[1]), 1, FALSE))
        /\ ~n[3] /\ n[2] = "XRef" => MethodNames(i) = NamesFor(i, "x_ref")]]

\* The two examples, under either reading.
ExamplesAsStated ==
    /\ Underscored(Chars("XRef"), 1, TRUE) = "x_ref"
    /\ Underscored(Chars("BadlyFormed"), 1, TRUE) = "badly_formed"
ExamplesInSnakeCase ==
    /\ Underscored(Chars("XRef"), 1, FALSE) = "x_ref"
    /\ Underscored(Chars("BadlyFormed"), 1, FALSE) = "badly_formed"

MutCastOf(v, e) == IF e.variant = v THEN Some(RefMut(v, e.payload)) ELSE None

\* For each block naming n and each invocation i that can stand in the block:
\* as_variant_mut!(V => Type) generates one `&mut self` method of return type
\* Option<&mut Type> that is the mutable safe cast on every value of the enum.
AsVariantMutCasts ==
    [n \in VariantNamings |-> [i \in VariantWellFormedFor[n] |->
        i.macro = "as_variant_mut" =>
          /\ Len(ExpandInv(i)) = 1
          /\ ExpandInv(i)[1].recv = "&mut self"
          /\ ExpandInv(i)[1].ret = "Option<&mut T>"
          /\ ExpandInv(i)[1].ty = PayloadType(n[2])
          /\ \A e \in EnumValues : RunVariant(ExpandInv(i)[1], e) = MutCastOf(n[2], e)]]

\* C24: the method as_<v>_mut generated by as_variant_mut!(V => Type) returns
\* Some(mutable reference to the payload) if self is variant V and None
\* otherwise; a write through the returned reference changes the payload of V
\* and never the variant of self, and a call on a value of another variant
\* leaves self unchanged.
C24_AsVariantMut ==
    /\ \A i \in impl : AsVariantMutCasts[naming][i]
    /\ last.op = "as_mut" =>
          /\ last.ret = MutCastOf(TheVariant, last.pre)
          /\ self = last.pre
          /\ last.pre.variant # TheVariant => borrow = ""
    /\ borrow # "" => borrow = self.variant /\ borrow = TheVariant
    /\ last.op = "write" =>
          /\ last.pre.variant = TheVariant
          /\ self = Enum(TheVariant, last.arg)

\* A write through the reference returned by a renamed as_<name>_mut() has
\* replaced the payload of the variant by another one.
C24_Witness ==
    /\ last.op = "write" /\ last.m.name = "as_" \o Snake(TheName) \o "_mut"
    /\ naming[3] /\ TheName # TheVariant
    /\ self.variant = TheVariant /\ self.payload # last.pre.payload
    /\ self.payload = Val(PayloadType(TheVariant)[1], MaxVal)

(***************************************************************************)
(* The standard form of the variant macros (specification SpecVariant)     *)
(***************************************************************************)

\* What the standard form carries after the two identifiers for variant v:
\* `=> type` with the type of the variant's value, nothing if it has none.
StandardArgs(v) == IF HasData(v) THEN <<"=>">> \o PayloadType(v) ELSE <<>>

\* `macro!(pub first, second [=> type])` for variant v.
StandardForm(mac, first, second, v) ==
    Invocation(mac, VariantTokens(first, second, TRUE, StandardArgs(v)))

\* For each block naming n and each variant macro: the methods of
\* `macro!(pub TypedAddress, V [=> type])` compile and are about variant V.
EnumThenVariant ==
    [n \in VariantNamings |-> [mac \in VariantMacros |->
        LET ms == Expand(mac, StandardForm(mac, "TypedAddress", n[2], n[2]).toks)
        IN  \A k \in 1..Len(ms) : VariantCompiles(ms[k]) /\ ms[k].variant = n[2]]]

\* For each block naming n and each variant macro: `macro!(pub V, name
\* [=> type])` is accepted, and its methods compile, are about variant V and
\* are named after `name`; without a type, as_variant_mut! and is_as_variant!
\* have no rule.
VariantThenName ==
    [n \in VariantNamings |-> [mac \in VariantMacros |->
        LET i == StandardForm(mac, n[2], n[1], n[2])
        IN  IF ~HasData(n[2]) /\ mac \in {"as_variant_mut", "is_as_variant"}
            THEN FirstMatch(Rules(mac), i.toks) = 0
            ELSE /\ FirstMatch(Rules(mac), i.toks) # 0
                 /\ MethodNames(i) = NamesFor(i, Snake(n[1]))
                 /\ \A m \in Range(ExpandInv(i)) :
                       VariantCompiles(m) /\ m.variant = n[2]]]

TruePredicates(e) == {m \in methods : m.ret = "bool" /\ RunVariant(m, e)}
SomeCasts(e) ==
    {m \in methods : m.recv = "&self" /\ m.ret # "bool" /\ RunVariant(m, e) # None}

\* C28: for an enum in which every variant has a generated is_ predicate (and
\* an as_ safe cast), exactly one is_ predicate is true and at most one as_
\* method returns Some, for every value of the enum, including enums where
\* several variants carry the same payload type.
C28_OnePredicatePerValue ==
    /\ \A v \in naming : \E m \in methods : m.ret = "bool" /\ m.variant = v
    /\ \A e \in {x \in EnumValues : x.variant \in naming} :
          /\ Cardinality(TruePredicates(e)) = 1
          /\ \A m \in TruePredicates(e) : m.variant = e.variant
          /\ Cardinality(SomeCasts(e)) <= 1
          /\ \A m \in SomeCasts(e) : m.variant = e.variant
    /\ last.op = "is" => last.ret = (last.m.variant = last.pre.variant)
    /\ last.op = "as" => (last.ret # None) = (last.m.variant = last.pre.variant)

\* In an enum that declares Home(Address) and Work(Address), as_work() has
\* returned the payload of a Work value, on which as_home() returns None and
\* is_home() is false.
C28_Witness ==
    /\ {"Home", "Work"} \subseteq naming
    /\ last.op = "as" /\ last.m.name = "as_work" /\ last.pre = self
    /\ last.ret = Some(Ref("Work", Val("Address", MaxVal)))
    /\ \E m \in methods : m.name = "as_home" /\ RunVariant(m, self) = None
    /\ \E m \in methods : m.name = "is_home" /\ ~RunVariant(m, self)

(***************************************************************************)
(* Properties of impl_display_for_enum! (specification SpecDisplay)        *)
(***************************************************************************)

\* The number of commas between arm k and arm k + 1 of a match body.
RECURSIVE CommasFrom(_, _)
CommasFrom(body, j) ==
    IF j > Len(body) \/ body[j] # Comma THEN 0 ELSE 1 + CommasFrom(body, j + 1)

\* The positions of the arms in a match body.
ArmPositions(body) == {j \in 1..Len(body) : body[j] # Comma}

\* C29: impl_display_for_enum!(Enum [V1, ..., Vn]) expands, for every n >= 1,
\* to a Display implementation whose fmt has exactly one well-formed match arm
\* per listed variant (consecutive arms separated by exactly one comma) and
\* which delegates to the fmt of the payload of whichever variant self is.
C29_DisplayForEnum ==
    \A i \in impl :
        LET b == DisplayMatch(i.toks).b
            m == ExpandDisplay(i.toks)
        IN  Len(b.variant_name) >= 1 =>
              /\ "body" \in DOMAIN m /\ m.name = "fmt"
              /\ [k \in 1..Len(b.variant_name) |-> Arm(b.variant_name[k], "fmt", <<"f">>)]
                    = SelectSeq(m.body, LAMBDA t : t # Comma)
              /\ \A j \in ArmPositions(m.body) :
                    (\E h \in ArmPositions(m.body) : h > j) => CommasFrom(m.body, j + 1) = 1
              /\ MatchArms(m.body, 1).ok
              /\ \A e \in {x \in EnumValues : x.variant \in Range(b.variant_name)} :
                    RunDisplay(m, e) = Delegated(e.payload, "fmt", <<"f">>)

\* The compiler has expanded an invocation that lists the two variants of the
\* declared enum, and rejected the match body: two commas stand between the
\* two arms.
C29_Witness ==
    /\ last.op = "expand" /\ last.ret = FALSE /\ methods = {}
    /\ Len(last.m.listed) = 2 /\ Range(last.m.listed) = naming
    /\ Cardinality(naming) = 2
    /\ CommasFrom(last.m.body, 2) = 2
    /\ ~MatchArms(last.m.body, 1).ok

\* With one variant listed the expansion is as stated, and fmt delegates to
\* the payload.
DisplayOfOneVariant ==
    /\ \A i \in impl :
          LET b == DisplayMatch(i.toks).b
              m == ExpandDisplay(i.toks)
          IN  Len(b.variant_name) = 1 =>
                /\ m.body = <<Arm(b.variant_name[1], "fmt", <<"f">>), Comma>>
                /\ MatchArms(m.body, 1).ok
                /\ naming = Range(b.variant_name) => DisplayCompiles(m, naming)
    /\ \A m \in methods : Len(m.listed) = 1
    /\ last.op = "fmt" => last.ret = Delegated(last.pre.payload, "fmt", <<"f">>)

(***************************************************************************)
(* Frame and last-writer-wins (specification SpecFrame)                    *)
(***************************************************************************)

\* The fields the block is not written for.
OtherFields == Fields \ {TheField}

\* C25: every generated mutator (set_<name>, unset_<name>, with_<name>, and a
\* write through <name>_mut) changes only the one field it is generated for:
\* for a struct with several fields, every other field has the same value
\* after the call as before it, in all keyword forms and in the renamed form.
C25_MutatorsChangeOneField ==
    /\ \A m \in methods : m.field = TheField
    /\ last.op \in {"set", "unset", "with", "write", "get_mut"} =>
          \A f \in OtherFields : self[f] = last.pre[f]
    /\ last.op = "with" => last.ret = self
    /\ borrow # "" => borrow = TheField
    /\ \A f \in OtherFields : self[f] = initial[f]

\* A setter named after another field of the struct has changed the field it
\* is generated for, and the field it is named after still holds its value.
C25_Witness ==
    /\ naming[3] /\ TheName \in OtherFields
    /\ last.op = "set" /\ last.m.name = "set_" \o TheName
    /\ self[TheField] # last.pre[TheField]
    /\ self[TheName] = Filled[TheName] /\ self[TheName] # Default[TheName]

\* A call of a generated method (and no write through a reference).
IsCall == borrow = "" /\ borrow' = "" /\ last'.pre = self

\* C27: generated mutators on one field are last-writer-wins and idempotent:
\* set_<name>(a) followed by set_<name>(b) leaves the struct in the same state
\* as set_<name>(b) alone, with_<name>(a).with_<name>(b) equals with_<name>(b),
\* set_<name>(a) after unset_<name>() equals set_<name>(a) alone, and calling
\* unset_<name>() twice equals calling it once.
C27_LastWriterWins ==
    [][IsCall =>
        /\ (last.op = "set" /\ last'.op = "set") =>
              self' = Exec(last'.m, last.pre, last'.arg).self
        /\ (last.op = "with" /\ last'.op = "with") =>
              self' = Exec(last'.m, last.pre, last'.arg).ret
        /\ (last.op = "unset" /\ last'.op = "set") =>
              self' = Exec(last'.m, last.pre, last'.arg).self
        /\ (last.op = "unset" /\ last'.op = "unset") => self' = self]_vars

\* set_<name>(a) has been called after unset_<name>() cleared a field that
\* held a value, and the field holds Some(a).
C27_Witness ==
    /\ last.op = "set" /\ lastMut.kind = "set" /\ lastMut.prevKind = "unset"
    /\ initial[TheField] # None /\ last.pre[TheField] = None
    /\ self[TheField] = Some(Val(TheType, MaxVal))

(***************************************************************************)
(* The read-only methods (specification SpecRead)                          *)
(***************************************************************************)

\* The calls of methods generated by get!, is_variant! and as_variant!.
Reads == {"get", "is", "as"}

\* C26: the generated read-only methods (every form of get!, is_variant! and
\* as_variant!) leave the struct or enum value unchanged, and two consecutive
\* calls with no mutator in between return equal results.
C26_ReadOnly ==
    [][last'.op \in Reads =>
        /\ self' = self
        /\ last'.m.recv = "&self"
        /\ (last.op = last'.op /\ last.m = last'.m) => last'.ret = last.ret
        /\ last'.ret = IF OnStruct THEN Exec(last'.m, self', NoArg).ret
                       ELSE RunVariant(last'.m, self')]_vars

\* The getter of an optional field has been called on a struct that a setter
\* changed; it returned the value that was set and the struct is as it was.
C26_Witness ==
    /\ OnStruct /\ last.op = "get" /\ lastMut.kind = "set"
    /\ last.pre = self /\ self # initial
    /\ IsOptional(TheField) /\ last.ret = Some(Ref(TheField, lastMut.arg))

\* The methods emitted so far for invocation i of the block.
EmittedFor(i) == {x.m : x \in {y \in methods : y.of = i}}

IsExpanded(i) == \A c \in self : c.origin # i

SelectionKeywords == {"copy", "into", "optional", "const"}

\* The keywords an invocation carries, and those a matcher spells out.
KeywordsIn(toks) ==
    LET IsKeyword(t) == t \in SelectionKeywords
    IN  SelectSeq(toks, IsKeyword)

RuleKeywords(pat) ==
    LET IsKeyword(p) == Len(p) = 1 /\ p[1] \in SelectionKeywords
        lits == SelectSeq(pat, IsKeyword)
    IN  [k \in 1..Len(lits) |-> lits[k][1]]

\* Whether the call is written in the two-name form, and whether a matcher
\* takes two names.
TwoNames(c) ==
    LET a == Find(c.toks, "=>", 1)
    IN  IF c.macro \in VariantMacros THEN a = 5
        ELSE IF c.macro = "unset" THEN a + 1 = Len(c.toks)
        ELSE a + 2 <= Len(c.toks) /\ c.toks[a + 2] = ","

RuleTwoNames(pat) ==
    LET IsIdent(p) == Len(p) = 2 /\ p[2] = "ident"
    IN  Len(SelectSeq(pat, IsIdent)) = 2

\* Whether the tokens end in `=> ()`, and whether a matcher does.
EndsInUnit(toks) ==
    Len(toks) >= 2 /\ SubSeq(toks, Len(toks) - 1, Len(toks)) = <<"=>", "()">>

NoDataRule(pat) ==
    /\ Len(pat) >= 2 /\ SubSeq(pat, Len(pat) - 1, Len(pat)) = UnitForm
    /\ \A k \in 1..Len(pat) : Len(pat[k]) = 2 => pat[k][2] \notin {"ty", "expr"}

HasNoDataRule(macro) ==
    \E k \in 1..Len(Rules(macro)) : NoDataRule(Rules(macro)[k].pat)

\* C23: the rule used for a macro call is the first one whose matcher
\* accepts it, and it is the rule written for the call's keywords: its
\* matcher spells out exactly the keywords the call carries (so a call with
\* copy, into, optional, optional copy or optional into is never taken by the
\* rule without keywords), it takes two names exactly if the call is in the
\* two-name form, and a call ending in `=> ()` to a macro with a no-data rule
\* is taken by a no-data rule, never by a rule with a type or a value.
C23_RuleForKeywords ==
    (last.call # NoCall /\ last.rule # 0) =>
        LET c == last.call
            rules == Rules(c.macro)
            pat == rules[last.rule].pat
        IN  /\ Match(pat, c.toks).ok
            /\ \A j \in 1..(last.rule - 1) : ~Match(rules[j].pat, c.toks).ok
            /\ RuleKeywords(pat) = KeywordsIn(c.toks)
            /\ c.macro # "impl_from_for_variant" => (RuleTwoNames(pat) <=> TwoNames(c))
            /\ (EndsInUnit(c.toks) /\ HasNoDataRule(c.macro)) => NoDataRule(pat)

\* `as_variant!(pub Variant => ())`, written in the block in the one-name
\* form, has been expanded.
C23_Witness ==
    /\ last.call.macro = "as_variant" /\ last.call.chain = <<>>
    /\ EndsInUnit(last.call.toks) /\ ~TwoNames(last.call)
    /\ last.rule # 0 /\ NoDataRule(Rules("as_variant")[last.rule].pat)

AllMacros == FieldMacros \cup VariantMacros \cup {"impl_from_for_variant"}

\* The other macros that the rules of `macro` re-invoke.
Invokes(macro) ==
    LET rules == Rules(macro)
    IN  UNION {{rules[k].out[n].macro :
                    n \in {j \in 1..Len(rules[k].out) : rules[k].out[j].op = "call"}} :
                k \in 1..Len(rules)} \ {macro}

\* A leaf macro re-invokes no other macro; a macro built from others lies one
\* level above the highest of them.
RECURSIVE LevelOf(_)
LevelOf(macro) ==
    IF Invokes(macro) = {} THEN 0
    ELSE LET below == {LevelOf(m) : m \in Invokes(macro)}
         IN  1 + CHOOSE l \in below : \A o \in below : o <= l

Level == [m \in AllMacros |-> LevelOf(m)]

\* How explicit a call is: whether it has `=>` and what follows it, and
\* whether it has the second name.
Explicitness(c) ==
    (IF Find(c.toks, "=>", 1) <= Len(c.toks) THEN 1 ELSE 0)
        + (IF TwoNames(c) THEN 1 ELSE 0)

\* The expansion before the state did not return to a rule of its chain, and
\* it emitted a method unless it re-invoked macros allowed by Lower.
StepEndsOrDescends(Lower(_, _)) ==
    last.call # NoCall =>
        /\ last.rule # 0
        /\ <<last.call.macro, last.rule>> \notin Range(last.call.chain)
        /\ last.invoked = {} => last.emitted # {}
        /\ \A i \in last.invoked :
            IF i.macro = last.call.macro
            THEN Explicitness(i) > Explicitness(last.call)
            ELSE Lower(i.macro, last.call.macro)

ToLeaf(to, from) == Level[to] = 0
ToLowerLevel(to, from) == Level[to] < Level[from]

\* C30 as stated: the expansion of a block terminates, and every rule that
\* re-invokes a macro re-invokes a strictly more explicit form of its own
\* macro or a leaf macro.
C30_OnlyLeafMacros ==
    /\ <>[](self = {})
    /\ [](StepEndsOrDescends(ToLeaf))

\* C30: the expansion of a block terminates: every rule that re-invokes a
\* macro re-invokes a strictly more explicit form of its own macro, a leaf
\* macro or a combinator of a lower level, no expansion selects a rule that is
\* already in its chain, and a rule that re-invokes nothing emits a method.
C30_Terminates ==
    /\ <>[](self = {})
    /\ [](StepEndsOrDescends(ToLowerLevel))

\* A block is expanded down to a method of a leaf macro through a chain of
\* four re-invocations that passed through two combinators.
C30_Witness ==
    /\ self = {} /\ Len(last.call.chain) >= 4 /\ last.emitted # {}
    /\ Level[last.call.macro] = 0
    /\ \E k \in 1..Len(last.call.chain) : Level[last.call.chain[k][1]] = 2

====
